---- MODULE Spec2Model ----
(***************************************************************************)
(* A model of the Solidity import resolver of v-next/resolver              *)
(* (ResolverImplementation in src/index.ts).  Paths, source names and      *)
(* import strings are TLA+ strings handled character by character, so that *)
(* the string predicates of the code (startsWith, includes, indexOf, the   *)
(* regular expressions) and node's path functions are computed, not        *)
(* abstracted.                                                             *)
(***************************************************************************)
EXTENDS Integers, Sequences, FiniteSets, TLC

VARIABLES
    status,             \* "new" | "ready" | "failed": the outcome of create
    userRemappings,     \* #userRemappings: sequence of UserRemapping records
    cacheBySourceName,  \* #cacheBySourceName: function sourceName -> ResolvedFile
    dependencyMaps,     \* #dependencyMaps: insertion-ordered map of maps
    last,               \* the last call made by the driver and what it returned
    earlier,            \* the resolver created before this one, if there is one
    inflight,           \* the calls that overlap: for each task, where its call is
    cachedObject        \* the identity of the object an overlapping call cached

vars == <<status, userRemappings, cacheBySourceName, dependencyMaps, last, earlier,
          inflight, cachedObject>>

-----------------------------------------------------------------------------
(* Strings *)

Char(s, i) == SubSeq(s, i, i)

StartsWith(s, p) == Len(p) <= Len(s) /\ SubSeq(s, 1, Len(p)) = p

\* String.prototype.slice(n): the string without its first n characters
Slice(s, n) == SubSeq(s, n + 1, Len(s))

\* String.prototype.indexOf for a one-character needle, 1-based; 0 if absent
RECURSIVE IndexFrom(_, _, _)
IndexFrom(s, c, i) ==
    IF i > Len(s) THEN 0
    ELSE IF Char(s, i) = c THEN i
    ELSE IndexFrom(s, c, i + 1)

IndexOf(s, c) == IndexFrom(s, c, 1)

\* String.prototype.includes
Includes(s, sub) ==
    \E i \in 1..(Len(s) - Len(sub) + 1) : SubSeq(s, i, i + Len(sub) - 1) = sub

UpperChars == <<"A","B","C","D","E","F","G","H","I","J","K","L","M",
                "N","O","P","Q","R","S","T","U","V","W","X","Y","Z">>
LowerChars == <<"a","b","c","d","e","f","g","h","i","j","k","l","m",
                "n","o","p","q","r","s","t","u","v","w","x","y","z">>

UpperToLower ==
    [c \in { UpperChars[i] : i \in 1..26 } |->
        LowerChars[CHOOSE i \in 1..26 : UpperChars[i] = c]]

LowerChar(c) == IF c \in DOMAIN UpperToLower THEN UpperToLower[c] ELSE c

\* String.prototype.toLowerCase
RECURSIVE ToLowerCase(_)
ToLowerCase(s) ==
    IF s = "" THEN "" ELSE LowerChar(Char(s, 1)) \o ToLowerCase(Slice(s, 1))

\* String.prototype.split(c) for a one-character separator
RECURSIVE SplitOn(_, _)
SplitOn(s, c) ==
    LET i == IndexOf(s, c) IN
    IF i = 0 THEN <<s>>
    ELSE <<SubSeq(s, 1, i - 1)>> \o SplitOn(Slice(s, i), c)

Split(s) == SplitOn(s, "/")

AllIn(s, chars) == \A i \in 1..Len(s) : Char(s, i) \in chars

\* Array.prototype.join("/")
RECURSIVE JoinSegs(_)
JoinSegs(segs) ==
    IF segs = <<>> THEN ""
    ELSE IF Len(segs) = 1 THEN segs[1]
    ELSE segs[1] \o "/" \o JoinSegs(Tail(segs))

-----------------------------------------------------------------------------
(* node:path (posix) *)

IsAbsolute(p) == StartsWith(p, "/")

\* The segment walk of path.normalize: "" and "." are dropped, ".." removes
\* the segment before it; above the start, ".." is kept for a relative path
\* and dropped for an absolute one.
RECURSIVE NormSegs(_, _, _)
NormSegs(segs, acc, abs) ==
    IF segs = <<>> THEN acc
    ELSE LET s == Head(segs)
             rest == Tail(segs) IN
         IF s = "" \/ s = "." THEN NormSegs(rest, acc, abs)
         ELSE IF s = ".."
              THEN IF acc # <<>> /\ acc[Len(acc)] # ".."
                   THEN NormSegs(rest, SubSeq(acc, 1, Len(acc) - 1), abs)
                   ELSE IF abs THEN NormSegs(rest, acc, abs)
                        ELSE NormSegs(rest, Append(acc, ".."), abs)
              ELSE NormSegs(rest, Append(acc, s), abs)

\* path.normalize: a trailing slash is kept, the empty result is "."
PathNormalize(p) ==
    IF p = "" THEN "."
    ELSE LET abs == IsAbsolute(p)
             trailing == Char(p, Len(p)) = "/"
             body == JoinSegs(NormSegs(Split(p), <<>>, abs)) IN
         IF body = ""
         THEN IF abs THEN "/" ELSE IF trailing THEN "./" ELSE "."
         ELSE (IF abs THEN "/" ELSE "") \o body \o (IF trailing THEN "/" ELSE "")

\* path.join(a, b): the non-empty arguments joined by "/" and normalized
PathJoin(a, b) ==
    IF a = "" /\ b = "" THEN "."
    ELSE IF a = "" THEN PathNormalize(b)
    ELSE IF b = "" THEN PathNormalize(a)
    ELSE PathNormalize(a \o "/" \o b)

\* path.dirname
PathDirname(p) ==
    LET segs == Split(p) IN
    IF Len(segs) = 1 THEN "."
    ELSE LET d == JoinSegs(SubSeq(segs, 1, Len(segs) - 1)) IN
         IF d = "" THEN "/" ELSE d

\* process.cwd(): the tests run with the project root as working directory
Cwd == "/m/p"

\* path.resolve(p): absolute and normalized, without a trailing slash
PathResolve(p) ==
    LET abs == IF IsAbsolute(p) THEN p ELSE Cwd \o "/" \o p
        body == JoinSegs(NormSegs(Split(abs), <<>>, TRUE)) IN
    "/" \o body

RECURSIVE CommonPrefixLen(_, _)
CommonPrefixLen(a, b) ==
    IF a = <<>> \/ b = <<>> THEN 0
    ELSE IF Head(a) # Head(b) THEN 0
    ELSE 1 + CommonPrefixLen(Tail(a), Tail(b))

\* path.relative(from, to): both are resolved, then the path from one to
\* the other is built with ".." segments
PathRelative(from, to) ==
    LET f == NormSegs(Split(PathResolve(from)), <<>>, TRUE)
        t == NormSegs(Split(PathResolve(to)), <<>>, TRUE)
        n == CommonPrefixLen(f, t)
        ups == [i \in 1..(Len(f) - n) |-> ".."] IN
    JoinSegs(ups \o SubSeq(t, n + 1, Len(t)))

-----------------------------------------------------------------------------
(* The file system and the installed packages the resolver runs against:   *)
(* a monorepo /m holding the project /m/p (package proj), the sibling      *)
(* packages /m/sib and /m/pq, and the packages dep and @s/u installed in   *)
(* the project's node_modules.  The project has a directory named npm, as  *)
(* the test fixture has.  The package hardhat is installed too, and the    *)
(* project and the package dep each have a directory named hardhat.  The   *)
(* package @s/u has a directory npm/@s/u@0.0.1 of its own.  The installed  *)
(* package pre has a pre-release version, 1.0.0-rc.1.  The package whose   *)
(* manifest names it real is installed under the name ali.  The package    *)
(* kit is installed twice in the same version: the copy in the project's   *)
(* node_modules has a dep 2.0.0 of its own, the copy in ali's node_modules *)
(* has none and sees the project's dep 1.2.3.                              *)

ProjectRoot == "/m/p"

Files == {
    "/m/p/package.json",
    "/m/p/F.sol",
    "/m/p/c/F.sol",
    "/m/p/c/G.sol",
    "/m/p/npm/F.sol",
    "/m/p/npm/dep@1.2.3/X.sol",
    "/m/p/node_modules/dep/package.json",
    "/m/p/node_modules/dep/X.sol",
    "/m/p/node_modules/dep/Y.sol",
    "/m/p/node_modules/dep/src/A.sol",
    "/m/p/node_modules/@s/u/package.json",
    "/m/p/node_modules/@s/u/Y.sol",
    "/m/p/node_modules/@s/u/Z.sol",
    "/m/p/node_modules/@s/u/npm/@s/u@0.0.1/Z.sol",
    "/m/p/hardhat/console.sol",
    "/m/p/node_modules/dep/hardhat/console.sol",
    "/m/p/node_modules/hardhat/package.json",
    "/m/p/node_modules/hardhat/console.sol",
    "/m/p/node_modules/pre/package.json",
    "/m/p/node_modules/pre/P.sol",
    "/m/p/node_modules/ali/package.json",
    "/m/p/node_modules/ali/A.sol",
    "/m/p/node_modules/ali/node_modules/kit/package.json",
    "/m/p/node_modules/ali/node_modules/kit/L.sol",
    "/m/p/node_modules/kit/package.json",
    "/m/p/node_modules/kit/K.sol",
    "/m/p/node_modules/kit/node_modules/dep/package.json",
    "/m/p/node_modules/kit/node_modules/dep/X.sol",
    "/m/sib/package.json",
    "/m/sib/S.sol",
    "/m/pq/package.json",
    "/m/pq/X.sol" }

\* package.json files: the name and version fields
Manifests == [p \in { f \in Files : Includes(f, "package.json") } |->
    CASE p = "/m/p/package.json" -> [name |-> "proj", version |-> "0.1.0"]
      [] p = "/m/p/node_modules/dep/package.json" -> [name |-> "dep", version |-> "1.2.3"]
      [] p = "/m/p/node_modules/@s/u/package.json" -> [name |-> "@s/u", version |-> "0.0.1"]
      [] p = "/m/p/node_modules/hardhat/package.json" ->
            [name |-> "hardhat", version |-> "2.0.0"]
      [] p = "/m/p/node_modules/pre/package.json" ->
            [name |-> "pre", version |-> "1.0.0-rc.1"]
      [] p = "/m/p/node_modules/ali/package.json" ->
            [name |-> "real", version |-> "1.0.0"]
      [] p = "/m/p/node_modules/ali/node_modules/kit/package.json" ->
            [name |-> "kit", version |-> "1.0.0"]
      [] p = "/m/p/node_modules/kit/package.json" ->
            [name |-> "kit", version |-> "1.0.0"]
      [] p = "/m/p/node_modules/kit/node_modules/dep/package.json" ->
            [name |-> "dep", version |-> "2.0.0"]
      [] p = "/m/sib/package.json" -> [name |-> "sib", version |-> "0.5.0"]
      [] p = "/m/pq/package.json" -> [name |-> "pq", version |-> "0.2.0"]]

\* The entries of the node_modules directories: real directories, and the
\* links a workspace install creates at the monorepo root (node resolves a
\* link to the real path of its target).
NodeModules == {
    [dir |-> "/m/p", name |-> "dep", real |-> "/m/p/node_modules/dep"],
    [dir |-> "/m/p", name |-> "@s/u", real |-> "/m/p/node_modules/@s/u"],
    [dir |-> "/m/p", name |-> "hardhat", real |-> "/m/p/node_modules/hardhat"],
    [dir |-> "/m/p", name |-> "pre", real |-> "/m/p/node_modules/pre"],
    [dir |-> "/m/p", name |-> "ali", real |-> "/m/p/node_modules/ali"],
    [dir |-> "/m/p", name |-> "kit", real |-> "/m/p/node_modules/kit"],
    [dir |-> "/m/p/node_modules/ali", name |-> "kit",
     real |-> "/m/p/node_modules/ali/node_modules/kit"],
    [dir |-> "/m/p/node_modules/kit", name |-> "dep",
     real |-> "/m/p/node_modules/kit/node_modules/dep"],
    [dir |-> "/m", name |-> "proj", real |-> "/m/p"],
    [dir |-> "/m", name |-> "sib", real |-> "/m/sib"],
    [dir |-> "/m", name |-> "pq", real |-> "/m/pq"] }

NotFound == [found |-> FALSE, path |-> ""]
Found(p) == [found |-> TRUE, path |-> p]

\* require.resolve(name + "/package.json", {paths: [from]}): the nearest
\* node_modules directory, walking up from `from`, that holds the package
RECURSIVE NodeResolve(_, _)
NodeResolve(name, from) ==
    LET hits == { e \in NodeModules : e.dir = from /\ e.name = name } IN
    IF hits # {}
    THEN Found((CHOOSE e \in hits : TRUE).real \o "/package.json")
    ELSE IF from = "/" THEN NotFound
    ELSE NodeResolve(name, PathDirname(from))

\* resolve({from, importPath}) of resolve.ts: undefined for MODULE_NOT_FOUND
resolve(from, importPath) ==
    LET suffix == "/package.json" IN
    NodeResolve(SubSeq(importPath, 1, Len(importPath) - Len(suffix)), from)

\* The directories: every proper ancestor of a file
RECURSIVE Ancestors(_)
Ancestors(p) ==
    IF p = "/" THEN {} ELSE {PathDirname(p)} \cup Ancestors(PathDirname(p))

Directories == UNION { Ancestors(f) : f \in Files }

\* The entries of the directories: the directory, the name of the entry and
\* that name in lower case
DirectoryEntries ==
    { [dir |-> PathDirname(x),
       name |-> Slice(x, Len(IF PathDirname(x) = "/" THEN "/" ELSE PathDirname(x) \o "/")),
       lower |-> ToLowerCase(Slice(x, Len(IF PathDirname(x) = "/" THEN "/"
                                          ELSE PathDirname(x) \o "/")))] :
        x \in (Files \cup Directories) \ {"/"} }

\* fs.readdir, or no entry when there is no such directory
ReadDir(dir) == { e \in DirectoryEntries : e.dir = dir }

\* exists(absolutePath): a file or a directory
exists(p) == p \in Files \/ p \in Directories

\* getFileTrueCase(from, relativePath): the relative path with the casing
\* the file system has, found entry by entry; FileNotFoundError otherwise
RECURSIVE TrueCaseSegments(_, _)
TrueCaseSegments(from, segments) ==
    LET nextDirLowerCase == ToLowerCase(Head(segments))
        hits == { e \in ReadDir(from) : e.lower = nextDirLowerCase } IN
    IF hits = {} THEN NotFound
    ELSE LET dirEntry == (CHOOSE e \in hits : TRUE).name IN
         IF Len(segments) = 1 THEN Found(dirEntry)
         ELSE LET rest == TrueCaseSegments(from \o "/" \o dirEntry, Tail(segments)) IN
              IF rest.found THEN Found(dirEntry \o "/" \o rest.path) ELSE NotFound

getFileTrueCase(from, relativePath) == TrueCaseSegments(from, Split(relativePath))

\* Every file holds its own path as text, so no two files have the same
\* content
FileContent(p) == "content of " \o p

\* The operating system resolves the "." and ".." segments and the double
\* slashes of the path it is given
readUtf8File(p) ==
    LET Read(file) == IF file \in Files THEN Found(FileContent(file)) ELSE NotFound
    IN Read(PathNormalize(p))

\* readJsonFile of a package.json
readJsonFile(p) == Manifests[p]

-----------------------------------------------------------------------------
(* The types of index.ts *)

PROJECT_FILE == "PROJECT_FILE"
NPM_PACKGE_FILE == "NPM_PACKAGE_FILE"

\* NpmPackage; NoPackage stands for an absent (undefined) package
NpmPackage(name, version, rootPath, rootSourceName) ==
    [name |-> name, version |-> version, rootPath |-> rootPath,
     rootSourceName |-> rootSourceName]

NoPackage == NpmPackage("", "", "", "")

ProjectResolvedFile(sourceName, path, content) ==
    [type |-> PROJECT_FILE, sourceName |-> sourceName, path |-> path,
     content |-> content, package |-> NoPackage]

NpmPackageResolvedFile(sourceName, path, content, package) ==
    [type |-> NPM_PACKGE_FILE, sourceName |-> sourceName, path |-> path,
     content |-> content, package |-> package]

NoFile == [type |-> "", sourceName |-> "", path |-> "", content |-> "",
           package |-> NoPackage]

\* PROJECT_ROOT_SOURCE_NAME_SENTINEL is a symbol, equal to no string: keys
\* and values of the dependency maps carry a tag that sets it apart
SentinelKey == [sentinel |-> TRUE, sourceName |-> ""]
PackageKey(rootSourceName) == [sentinel |-> FALSE, sourceName |-> rootSourceName]

SentinelDependency == [sentinel |-> TRUE, package |-> NoPackage]
PackageDependency(pkg) == [sentinel |-> FALSE, package |-> pkg]

npmPackageToRootSourceName(name, version) ==
    "npm/" \o name \o "@" \o version \o "/"

isPackageJsonFromMonorepo(packageJsonPath, projectRoot) ==
    /\ ~Includes(packageJsonPath, "node_modules")
    /\ ~StartsWith(packageJsonPath, projectRoot)

isPackageJsonFromProject(packageJsonPath, projectRoot) ==
    /\ ~Includes(packageJsonPath, "node_modules")
    /\ StartsWith(packageJsonPath, projectRoot)

isPackageJsonFromNpmPackage(packageJsonPath) ==
    Includes(packageJsonPath, "node_modules")

-----------------------------------------------------------------------------
(* The regular expressions *)

Digits == {"0","1","2","3","4","5","6","7","8","9"}
\* [a-z0-9-~]
PackageFirstChars == { LowerChars[i] : i \in 1..26 } \cup Digits \cup {"-", "~"}
\* [a-z0-9-~._]
PackageChars == PackageFirstChars \cup {".", "_"}

NoMatch == [matched |-> FALSE, package |-> "", rest |-> ""]

\* (?:@[a-z0-9-~._]+\/)?[a-z0-9-~][a-z0-9-~._]* at the start of s, followed
\* by the character `stop`; rest is what follows `stop`.  No character of
\* the classes is "/" or "@", so the match is unique.
MatchPackageName(s, stop) ==
    LET scoped == StartsWith(s, "@")
        slash == IndexOf(s, "/")
        scopeOk == slash >= 3 /\ AllIn(SubSeq(s, 2, slash - 1), PackageChars)
        scope == IF scoped /\ scopeOk THEN SubSeq(s, 1, slash) ELSE ""
        t == Slice(s, Len(scope))
        end == IndexOf(t, stop) IN
    IF scoped /\ ~scopeOk THEN NoMatch
    ELSE IF /\ end >= 2
            /\ Char(t, 1) \in PackageFirstChars
            /\ AllIn(SubSeq(t, 2, end - 1), PackageChars)
         THEN [matched |-> TRUE, package |-> scope \o SubSeq(t, 1, end - 1),
               rest |-> Slice(t, end)]
         ELSE NoMatch

\* #parseNpmDirectImport: /^(?<package>...)\/(?<path>.*)$/
parseNpmDirectImport(directImport) ==
    LET m == MatchPackageName(directImport, "/") IN
    [matched |-> m.matched, package |-> m.package, path |-> m.rest]

\* \d+\.\d+\.\d+
IsVersionTriple(v) ==
    LET parts == SplitOn(v, ".") IN
    /\ Len(parts) = 3
    /\ \A i \in 1..3 : parts[i] # "" /\ AllIn(parts[i], Digits)

\* parseNpmRemappingTarget: /^npm\/(?<package>...)@(?<version>local|\d+\.\d+\.\d+)\//
parseNpmRemappingTarget(remappingTarget) ==
    LET m == IF StartsWith(remappingTarget, "npm/")
             THEN MatchPackageName(Slice(remappingTarget, 4), "@")
             ELSE NoMatch
        slash == IndexOf(m.rest, "/")
        version == SubSeq(m.rest, 1, slash - 1) IN
    IF m.matched /\ slash >= 1 /\ (version = "local" \/ IsVersionTriple(version))
    THEN [matched |-> TRUE, packageName |-> m.package, packageVersion |-> version]
    ELSE [matched |-> FALSE, packageName |-> "", packageVersion |-> ""]

-----------------------------------------------------------------------------
(* remappings.ts: the surface `context:prefix=target`, the selection of    *)
(* the best remapping and its application                                  *)

\* parseRemappingString: context is optional, target may be empty
parseRemappingString(remappingString) ==
    LET eq == IndexOf(remappingString, "=")
        left == SubSeq(remappingString, 1, eq - 1)
        colon == IndexOf(left, ":") IN
    [context |-> SubSeq(left, 1, colon - 1),
     prefix |-> Slice(left, colon),
     target |-> Slice(remappingString, eq)]

UserRemapping(rawFormat, remapping, targetNpmPackage) ==
    [rawFormat |-> rawFormat, context |-> remapping.context,
     prefix |-> remapping.prefix, target |-> remapping.target,
     targetNpmPackage |-> targetNpmPackage]

RemappingMatches(r, fromSourceName, directImport) ==
    StartsWith(fromSourceName, r.context) /\ StartsWith(directImport, r.prefix)

\* r is a better match than q: longer context, then longer prefix
BetterRemapping(r, q) ==
    \/ Len(r.context) > Len(q.context)
    \/ Len(r.context) = Len(q.context) /\ Len(r.prefix) > Len(q.prefix)

\* selectBestRemapping: the index of the best matching remapping, 0 if no
\* remapping matches; among equally good ones the first declared
selectBestRemapping(fromSourceName, directImport, remappings) ==
    LET matching == { i \in 1..Len(remappings) :
                        RemappingMatches(remappings[i], fromSourceName, directImport) }
        best == { i \in matching :
                    \A j \in matching : ~BetterRemapping(remappings[j], remappings[i]) } IN
    IF matching = {} THEN 0
    ELSE CHOOSE i \in best : \A j \in best : i <= j

\* applyValidRemapping: the prefix replaced by the target
applyValidRemapping(directImport, remapping) ==
    remapping.target \o Slice(directImport, Len(remapping.prefix))

-----------------------------------------------------------------------------
(* What a call gives back: its result, the cache and the dependency maps  *)
(* it leaves, and the I/O it performed, in order.                          *)

Outcome(kind, file, detail, cache, deps, io) ==
    [kind |-> kind, file |-> file, detail |-> detail,
     cache |-> cache, deps |-> deps, io |-> io]

\* return resolvedFile
Return(file, cache, deps, io) == Outcome("ok", file, "", cache, deps, io)

\* throw new Error(...)
Throw(kind, detail, cache, deps, io) == Outcome(kind, NoFile, detail, cache, deps, io)

\* A cache that keeps the last file only
CacheSet_KeepingLastOnly(cache, sourceName, file) ==
    [sn \in {sourceName} |-> file]

\* Map.prototype.set on the cache
CacheSet(cache, sourceName, file) ==
    [sn \in DOMAIN cache \cup {sourceName} |->
        IF sn = sourceName THEN file ELSE cache[sn]]

\* Map.prototype.has / get / set on the dependency maps, which keep the
\* order in which their keys were first set
HasKey(deps, key) == \E i \in 1..Len(deps) : deps[i].key = key

KeyIndex(deps, key) == CHOOSE i \in 1..Len(deps) : deps[i].key = key

HasDependency(deps, key, imported) ==
    /\ HasKey(deps, key)
    /\ \E j \in 1..Len(deps[KeyIndex(deps, key)].map) :
            deps[KeyIndex(deps, key)].map[j].imported = imported

GetDependency(deps, key, imported) ==
    LET m == deps[KeyIndex(deps, key)].map IN
    m[CHOOSE j \in 1..Len(m) : m[j].imported = imported].dependency

EnsureKey(deps, key) ==
    IF HasKey(deps, key) THEN deps ELSE Append(deps, [key |-> key, map |-> <<>>])

SetDependency(deps, key, imported, dependency) ==
    LET i == KeyIndex(deps, key) IN
    [deps EXCEPT ![i].map =
        Append(@, [imported |-> imported, dependency |-> dependency])]

-----------------------------------------------------------------------------
(* ResolverImplementation.  Each method is an operator from the resolver's *)
(* state (cache, deps, and the user remappings) and its arguments to an    *)
(* Outcome; io is the I/O performed so far by the call.  The values a      *)
(* method computes on its way (its consts) are the parameters of a local   *)
(* operator, so that each is computed once.                                *)

\* #validateExistanceAndCasingOfImport: "ok" when valid, else the error kind
validateExistanceAndCasingOfImport(relativePathToValidate, absolutePathToValidateFrom) ==
    LET Check(trueCasePath) ==
            IF ~trueCasePath.found
            THEN [kind |-> "ImportedFileMissing", detail |-> ""]
            ELSE IF relativePathToValidate # trueCasePath.path
            THEN [kind |-> "IncorrectCasing", detail |-> trueCasePath.path]
            ELSE [kind |-> "ok", detail |-> ""]
    IN Check(getFileTrueCase(absolutePathToValidateFrom, relativePathToValidate))

\* A tail that sets the file in the cache before it validates and reads
ValidateReadAndCache_CacheFirst(cache, deps, io, sourceName, relativePath, rootPath, filePath, file) ==
    LET Finish(v, content, resolvedFile, early) ==
            IF v.kind # "ok"
            THEN Throw(v.kind, v.detail, early, deps, io \o <<"getFileTrueCase">>)
            ELSE IF ~content.found
            THEN Throw("FileNotFoundError", filePath, early, deps,
                       io \o <<"getFileTrueCase", "readUtf8File">>)
            ELSE Return(resolvedFile, CacheSet(cache, sourceName, resolvedFile), deps,
                        io \o <<"getFileTrueCase", "readUtf8File">>)
        Read(v, content) == Finish(v, content, [file EXCEPT !.content = content.path],
                                   CacheSet(cache, sourceName, file))
    IN Read(validateExistanceAndCasingOfImport(relativePath, rootPath),
            readUtf8File(filePath))

\* The tail shared by the four techniques: validate, read, build the file,
\* set it in the cache.  `file` is the resolved file but for its content.
ValidateReadAndCache(cache, deps, io, sourceName, relativePath, rootPath, filePath, file) ==
    LET Finish(v, content, resolvedFile) ==
            IF v.kind # "ok"
            THEN Throw(v.kind, v.detail, cache, deps, io \o <<"getFileTrueCase">>)
            ELSE IF ~content.found
            THEN Throw("FileNotFoundError", filePath, cache, deps,
                       io \o <<"getFileTrueCase", "readUtf8File">>)
            ELSE Return(resolvedFile, CacheSet(cache, sourceName, resolvedFile), deps,
                        io \o <<"getFileTrueCase", "readUtf8File">>)
        Read(v, content) == Finish(v, content, [file EXCEPT !.content = content.path])
    IN Read(validateExistanceAndCasingOfImport(relativePath, rootPath),
            readUtf8File(filePath))

\* What a technique asks of ValidateReadAndCache
Plan(sourceName, relativePath, rootPath, filePath, file) ==
    [sourceName |-> sourceName, relativePath |-> relativePath, rootPath |-> rootPath,
     filePath |-> filePath, file |-> file]

\* A technique that does not look in the cache: it validates, reads and
\* builds a file at every call
CachedOrResolve_NoLookup(cache, deps, io, plan) ==
    ValidateReadAndCache(cache, deps, io, plan.sourceName, plan.relativePath,
                         plan.rootPath, plan.filePath, plan.file)

\* const cached = this.#cacheBySourceName.get(sourceName); if (cached !==
\* undefined) return cached; else validate, read and cache
CachedOrResolve(cache, deps, io, plan) ==
    IF plan.sourceName \in DOMAIN cache
    THEN Return(cache[plan.sourceName], cache, deps, io)
    ELSE ValidateReadAndCache(cache, deps, io, plan.sourceName, plan.relativePath,
                              plan.rootPath, plan.filePath, plan.file)

\* A locality test that knows no magic constant
isDirectImportLocal_NoConsole(projectOrPackageRoot, directImport) ==
    LET Decide(slash) ==
            IF slash = 0 THEN [local |-> TRUE, io |-> <<>>]
            ELSE [local |-> exists(PathJoin(projectOrPackageRoot,
                                            SubSeq(directImport, 1, slash - 1))),
                  io |-> <<"exists">>]
    IN Decide(IndexOf(directImport, "/"))

\* #isDirectImportLocal; io tells whether exists() ran
isDirectImportLocal(projectOrPackageRoot, directImport) ==
    LET Decide(slash) ==
            IF directImport = "hardhat/console.sol" THEN [local |-> FALSE, io |-> <<>>]
            ELSE IF slash = 0 THEN [local |-> TRUE, io |-> <<>>]
            ELSE [local |-> exists(PathJoin(projectOrPackageRoot,
                                            SubSeq(directImport, 1, slash - 1))),
                  io |-> <<"exists">>]
    IN Decide(IndexOf(directImport, "/"))

\* Technique 1, #resolveImportToProjectFile
resolveImportToProjectFile(pathWithinTheProject) ==
    LET Build(sourceName, relativePath, filePath) ==
            Plan(sourceName, relativePath, ProjectRoot, filePath,
                 ProjectResolvedFile(sourceName, filePath, ""))
    IN Build(pathWithinTheProject, pathWithinTheProject,
             PathJoin(ProjectRoot, pathWithinTheProject))

\* Technique 2, #resolveImportToNpmPackageRemappedByUser
resolveImportToNpmPackageRemappedByUser(directImport, remapping) ==
    LET Build(sourceName, relativeFilePath) ==
            Plan(sourceName, relativeFilePath, remapping.targetNpmPackage.rootPath,
                 PathJoin(remapping.targetNpmPackage.rootPath, relativeFilePath),
                 NpmPackageResolvedFile(sourceName,
                    PathJoin(remapping.targetNpmPackage.rootPath, relativeFilePath),
                    "", remapping.targetNpmPackage))
    IN Build(directImport,
             PathRelative(npmPackageToRootSourceName(remapping.targetNpmPackage.name,
                                                     remapping.targetNpmPackage.version),
                          directImport))

\* Technique 3, #resolveLocalImportFromNpmPackage
resolveLocalImportFromNpmPackage(from, directImport) ==
    LET Build(sourceName, relativePath, filePath) ==
            Plan(sourceName, relativePath, from.package.rootPath, filePath,
                 NpmPackageResolvedFile(sourceName, filePath, "", from.package))
    IN Build(directImport,
             PathRelative(from.package.rootSourceName, directImport),
             PathJoin(from.package.rootPath, directImport))

\* Technique 4, #resolveImportToNpmPackage
resolveImportToNpmPackage(importedPackage, pathWithinThePackage) ==
    LET Build(sourceName, filePath) ==
            Plan(sourceName, pathWithinThePackage, importedPackage.rootPath, filePath,
                 NpmPackageResolvedFile(sourceName, filePath, "", importedPackage))
    IN Build(importedPackage.rootSourceName \o pathWithinThePackage,
             PathJoin(importedPackage.rootPath, pathWithinThePackage))

\* The dependency #resolveImportThroughNpm stores for a located package.json
NewDependency(packageJsonPath) ==
    LET Build(packageJson, version) ==
            PackageDependency(NpmPackage(packageJson.name, version,
                PathDirname(packageJsonPath),
                npmPackageToRootSourceName(packageJson.name, version)))
    IN IF isPackageJsonFromProject(packageJsonPath, ProjectRoot)
       THEN SentinelDependency
       ELSE Build(readJsonFile(packageJsonPath),
                  IF isPackageJsonFromMonorepo(packageJsonPath, ProjectRoot)
                  THEN "local" ELSE readJsonFile(packageJsonPath).version)

\* A step of a resolution: either it ends the call (done, with its outcome)
\* or it names the technique's plan and the state to go on from
Ended(out) ==
    [done |-> TRUE, out |-> out, plan |-> Plan("", "", "", "", NoFile),
     deps |-> out.deps, io |-> out.io]

GoOn(plan, deps, io) ==
    [done |-> FALSE, out |-> Throw("", "", <<>>, <<>>, <<>>), plan |-> plan,
     deps |-> deps, io |-> io]

\* An npm resolution that consults the locator and sets the dependency at
\* every call, whether the dependency is stored or not
resolveImportThroughNpm_AlwaysLocate(cache, deps, io, from, directImport) ==
    LET Use(deps2, io2, dependency, path) ==
            IF dependency.sentinel
            THEN GoOn(resolveImportToProjectFile(path), deps2, io2)
            ELSE GoOn(resolveImportToNpmPackage(dependency.package, path), deps2, io2)
        Lookup(parsed, key, deps1, known, packageJsonPath) ==
            IF ~known /\ ~packageJsonPath.found
            THEN Ended(Throw("DependencyMissing",
                       IF from.type = PROJECT_FILE THEN "project"
                       ELSE from.package.name \o "@" \o from.package.version,
                       cache, deps1, io \o <<"resolve">>))
            ELSE IF known
            THEN Use(deps1, io, GetDependency(deps1, key, parsed.package), parsed.path)
            ELSE Use(SetDependency(deps1, key, parsed.package,
                                   NewDependency(packageJsonPath.path)),
                     io \o <<"resolve", "readJsonFile">>,
                     NewDependency(packageJsonPath.path), parsed.path)
        Keyed(parsed, key, deps1) ==
            Lookup(parsed, key, deps1, FALSE,
                   resolve(IF from.type = PROJECT_FILE THEN ProjectRoot
                           ELSE from.package.rootPath,
                           parsed.package \o "/package.json"))
        Parsed(parsed, key) ==
            IF ~parsed.matched
            THEN Ended(Throw("MalformedNpmImport", directImport, cache, deps, io))
            ELSE Keyed(parsed, key, EnsureKey(deps, key))
    IN Parsed(parseNpmDirectImport(directImport),
              IF from.type = PROJECT_FILE THEN SentinelKey
              ELSE PackageKey(from.package.rootSourceName))

\* An npm resolution whose error for a package that is not installed does
\* not tell which package asked for it
resolveImportThroughNpm_UnnamedRequester(cache, deps, io, from, directImport) ==
    LET Use(deps2, io2, dependency, path) ==
            IF dependency.sentinel
            THEN GoOn(resolveImportToProjectFile(path), deps2, io2)
            ELSE GoOn(resolveImportToNpmPackage(dependency.package, path), deps2, io2)
        Lookup(parsed, key, deps1, known, packageJsonPath) ==
            IF ~known /\ ~packageJsonPath.found
            THEN Ended(Throw("DependencyMissing", "project",
                       cache, deps1, io \o <<"resolve">>))
            ELSE IF known
            THEN Use(deps1, io, GetDependency(deps1, key, parsed.package), parsed.path)
            ELSE Use(SetDependency(deps1, key, parsed.package,
                                   NewDependency(packageJsonPath.path)),
                     io \o <<"resolve", "readJsonFile">>,
                     NewDependency(packageJsonPath.path), parsed.path)
        Keyed(parsed, key, deps1) ==
            Lookup(parsed, key, deps1, HasDependency(deps1, key, parsed.package),
                   resolve(IF from.type = PROJECT_FILE THEN ProjectRoot
                           ELSE from.package.rootPath,
                           parsed.package \o "/package.json"))
        Parsed(parsed, key) ==
            IF ~parsed.matched
            THEN Ended(Throw("MalformedNpmImport", directImport, cache, deps, io))
            ELSE Keyed(parsed, key, EnsureKey(deps, key))
    IN Parsed(parseNpmDirectImport(directImport),
              IF from.type = PROJECT_FILE THEN SentinelKey
              ELSE PackageKey(from.package.rootSourceName))

\* #resolveImportThroughNpm
resolveImportThroughNpm(cache, deps, io, from, directImport) ==
    LET Use(deps2, io2, dependency, path) ==
            IF dependency.sentinel
            THEN GoOn(resolveImportToProjectFile(path), deps2, io2)
            ELSE GoOn(resolveImportToNpmPackage(dependency.package, path), deps2, io2)
        Lookup(parsed, key, deps1, known, packageJsonPath) ==
            IF ~known /\ ~packageJsonPath.found
            THEN Ended(Throw("DependencyMissing",
                       IF from.type = PROJECT_FILE THEN "project"
                       ELSE from.package.name \o "@" \o from.package.version,
                       cache, deps1, io \o <<"resolve">>))
            ELSE IF known
            THEN Use(deps1, io, GetDependency(deps1, key, parsed.package), parsed.path)
            ELSE Use(SetDependency(deps1, key, parsed.package,
                                   NewDependency(packageJsonPath.path)),
                     io \o <<"resolve", "readJsonFile">>,
                     NewDependency(packageJsonPath.path), parsed.path)
        Keyed(parsed, key, deps1) ==
            Lookup(parsed, key, deps1, HasDependency(deps1, key, parsed.package),
                   resolve(IF from.type = PROJECT_FILE THEN ProjectRoot
                           ELSE from.package.rootPath,
                           parsed.package \o "/package.json"))
        Parsed(parsed, key) ==
            IF ~parsed.matched
            THEN Ended(Throw("MalformedNpmImport", directImport, cache, deps, io))
            ELSE Keyed(parsed, key, EnsureKey(deps, key))
    IN Parsed(parseNpmDirectImport(directImport),
              IF from.type = PROJECT_FILE THEN SentinelKey
              ELSE PackageKey(from.package.rootSourceName))

\* A resolution that records the package a user remapping leads to as a
\* dependency of the project, as technique 4 does for the package it locates
resolveImportFromProjectFile_RecordingRemapped(cache, deps, remappings, from, directImport) ==
    LET Remapped(bestUserRemapping, remappedDirectImport, remappedLocal) ==
            IF bestUserRemapping.targetNpmPackage # NoPackage
            THEN GoOn(resolveImportToNpmPackageRemappedByUser(remappedDirectImport,
                        bestUserRemapping),
                      SetDependency(EnsureKey(deps, SentinelKey), SentinelKey,
                                    bestUserRemapping.targetNpmPackage.name,
                                    PackageDependency(bestUserRemapping.targetNpmPackage)),
                      <<>>)
            ELSE IF remappedLocal.local
            THEN GoOn(resolveImportToProjectFile(remappedDirectImport), deps,
                      remappedLocal.io)
            ELSE Ended(Throw("RemapNotLocal", bestUserRemapping.rawFormat, cache, deps,
                             remappedLocal.io))
        Apply(bestUserRemapping, remappedDirectImport) ==
            Remapped(bestUserRemapping, remappedDirectImport,
                     isDirectImportLocal(ProjectRoot, remappedDirectImport))
        Direct(directLocal) ==
            IF directLocal.local
            THEN GoOn(resolveImportToProjectFile(directImport), deps, directLocal.io)
            ELSE resolveImportThroughNpm(cache, deps, directLocal.io, from, directImport)
        Select(best) ==
            IF best # 0
            THEN Apply(remappings[best], applyValidRemapping(directImport, remappings[best]))
            ELSE Direct(isDirectImportLocal(ProjectRoot, directImport))
    IN Select(selectBestRemapping(from.sourceName, directImport, remappings))

\* A resolution that hands a remapped import that is not local over to npm
\* resolution
resolveImportFromProjectFile_FallingThrough(cache, deps, remappings, from, directImport) ==
    LET Remapped(bestUserRemapping, remappedDirectImport, remappedLocal) ==
            IF bestUserRemapping.targetNpmPackage # NoPackage
            THEN GoOn(resolveImportToNpmPackageRemappedByUser(remappedDirectImport,
                        bestUserRemapping), deps, <<>>)
            ELSE IF remappedLocal.local
            THEN GoOn(resolveImportToProjectFile(remappedDirectImport), deps,
                      remappedLocal.io)
            ELSE resolveImportThroughNpm(cache, deps, remappedLocal.io, from,
                                         remappedDirectImport)
        Apply(bestUserRemapping, remappedDirectImport) ==
            Remapped(bestUserRemapping, remappedDirectImport,
                     isDirectImportLocal(ProjectRoot, remappedDirectImport))
        Direct(directLocal) ==
            IF directLocal.local
            THEN GoOn(resolveImportToProjectFile(directImport), deps, directLocal.io)
            ELSE resolveImportThroughNpm(cache, deps, directLocal.io, from, directImport)
        Select(best) ==
            IF best # 0
            THEN Apply(remappings[best], applyValidRemapping(directImport, remappings[best]))
            ELSE Direct(isDirectImportLocal(ProjectRoot, directImport))
    IN Select(selectBestRemapping(from.sourceName, directImport, remappings))

\* #resolveImportFromProjectFile
resolveImportFromProjectFile(cache, deps, remappings, from, directImport) ==
    LET Remapped(bestUserRemapping, remappedDirectImport, remappedLocal) ==
            IF bestUserRemapping.targetNpmPackage # NoPackage
            THEN GoOn(resolveImportToNpmPackageRemappedByUser(remappedDirectImport,
                        bestUserRemapping), deps, <<>>)
            ELSE IF remappedLocal.local
            THEN GoOn(resolveImportToProjectFile(remappedDirectImport), deps,
                      remappedLocal.io)
            ELSE Ended(Throw("RemapNotLocal", bestUserRemapping.rawFormat, cache, deps,
                             remappedLocal.io))
        Apply(bestUserRemapping, remappedDirectImport) ==
            Remapped(bestUserRemapping, remappedDirectImport,
                     isDirectImportLocal(ProjectRoot, remappedDirectImport))
        Direct(directLocal) ==
            IF directLocal.local
            THEN GoOn(resolveImportToProjectFile(directImport), deps, directLocal.io)
            ELSE resolveImportThroughNpm(cache, deps, directLocal.io, from, directImport)
        Select(best) ==
            IF best # 0
            THEN Apply(remappings[best], applyValidRemapping(directImport, remappings[best]))
            ELSE Direct(isDirectImportLocal(ProjectRoot, directImport))
    IN Select(selectBestRemapping(from.sourceName, directImport, remappings))

\* A resolver that applies the user remappings to the imports of package
\* files too, as it does to those of project files
resolveImportFromNpmPackageFile_Remapped(cache, deps, remappings, from, directImport) ==
    LET Direct(directLocal) ==
            IF directLocal.local
            THEN GoOn(resolveLocalImportFromNpmPackage(from,
                        from.package.rootSourceName \o directImport), deps, directLocal.io)
            ELSE resolveImportThroughNpm(cache, deps, directLocal.io, from, directImport)
        Select(best) ==
            IF best # 0 /\ remappings[best].targetNpmPackage # NoPackage
            THEN GoOn(resolveImportToNpmPackageRemappedByUser(
                        applyValidRemapping(directImport, remappings[best]),
                        remappings[best]), deps, <<>>)
            ELSE IF StartsWith(directImport, from.package.rootSourceName)
            THEN GoOn(resolveLocalImportFromNpmPackage(from, directImport), deps, <<>>)
            ELSE Direct(isDirectImportLocal(from.package.rootPath, directImport))
    IN Select(selectBestRemapping(from.sourceName, directImport, remappings))

\* #resolveImportFromNpmPackageFile
resolveImportFromNpmPackageFile(cache, deps, remappings, from, directImport) ==
    LET Direct(directLocal) ==
            IF directLocal.local
            THEN GoOn(resolveLocalImportFromNpmPackage(from,
                        from.package.rootSourceName \o directImport), deps, directLocal.io)
            ELSE resolveImportThroughNpm(cache, deps, directLocal.io, from, directImport)
    IN IF StartsWith(directImport, from.package.rootSourceName)
       THEN GoOn(resolveLocalImportFromNpmPackage(from, directImport), deps, <<>>)
       ELSE Direct(isDirectImportLocal(from.package.rootPath, directImport))

IsRelativeImport(importPath) ==
    StartsWith(importPath, "./") \/ StartsWith(importPath, "../")

\* The direct import resolveImport computes from the import string
DirectImport(from, importPath) ==
    IF IsRelativeImport(importPath)
    THEN PathJoin(PathDirname(from.sourceName), importPath)
    ELSE importPath

\* A resolveImport without the check that a relative import of a package
\* file stays in its package
SelectTechnique_NoPackageCheck(cache, deps, remappings, from, importPath) ==
    LET Switch(directImport) ==
            IF /\ IsRelativeImport(importPath)
               /\ from.type # NPM_PACKGE_FILE
               /\ StartsWith(directImport, "../")
            THEN Ended(Throw("ImportOutsideProject", importPath, cache, deps, <<>>))
            ELSE IF from.type = PROJECT_FILE
            THEN resolveImportFromProjectFile(cache, deps, remappings, from, directImport)
            ELSE resolveImportFromNpmPackageFile(cache, deps, remappings, from, directImport)
    IN Switch(DirectImport(from, importPath))

\* The selection of resolveImport: the checks of a relative import, then
\* the switch on from.type
SelectTechnique(cache, deps, remappings, from, importPath) ==
    LET Switch(directImport) ==
            IF /\ IsRelativeImport(importPath)
               /\ from.type = NPM_PACKGE_FILE
               /\ ~StartsWith(directImport, from.package.rootSourceName)
            THEN Ended(Throw("ImportOutsidePackage", importPath, cache, deps, <<>>))
            ELSE IF /\ IsRelativeImport(importPath)
                    /\ from.type # NPM_PACKGE_FILE
                    /\ StartsWith(directImport, "../")
            THEN Ended(Throw("ImportOutsideProject", importPath, cache, deps, <<>>))
            ELSE IF from.type = PROJECT_FILE
            THEN resolveImportFromProjectFile(cache, deps, remappings, from, directImport)
            ELSE resolveImportFromNpmPackageFile(cache, deps, remappings, from, directImport)
    IN Switch(DirectImport(from, importPath))

\* resolveImport: the selected technique, carried out
resolveImport(cache, deps, remappings, from, importPath) ==
    LET Run(step) ==
            IF step.done THEN step.out
            ELSE CachedOrResolve(cache, step.deps, step.io, step.plan)
    IN Run(SelectTechnique(cache, deps, remappings, from, importPath))

\* resolveProjectFile
resolveProjectFile(cache, deps, absoluteFilePath) ==
    LET Finish(sourceName, trueCasePath, content, resolvedFile) ==
            IF sourceName \in DOMAIN cache
            THEN Return(cache[sourceName], cache, deps, <<>>)
            ELSE IF ~StartsWith(absoluteFilePath, ProjectRoot)
            THEN Throw("NotWithinProject", absoluteFilePath, cache, deps, <<>>)
            ELSE IF ~trueCasePath.found
            THEN Throw("ProjectFileMissing", absoluteFilePath, cache, deps,
                       <<"getFileTrueCase">>)
            ELSE IF trueCasePath.path # sourceName
            THEN Throw("IncorrectCasing", PathJoin(ProjectRoot, trueCasePath.path),
                       cache, deps, <<"getFileTrueCase">>)
            ELSE IF ~content.found
            THEN Throw("FileNotFoundError", absoluteFilePath, cache, deps,
                       <<"getFileTrueCase", "readUtf8File">>)
            ELSE Return(resolvedFile, CacheSet(cache, sourceName, resolvedFile), deps,
                        <<"getFileTrueCase", "readUtf8File">>)
        Read(relativeFilePath, content) ==
            Finish(relativeFilePath, getFileTrueCase(ProjectRoot, relativeFilePath),
                   content,
                   ProjectResolvedFile(relativeFilePath, absoluteFilePath, content.path))
    IN Read(PathRelative(ProjectRoot, absoluteFilePath), readUtf8File(absoluteFilePath))

Remapping(context, prefix, target) ==
    [context |-> context, prefix |-> prefix, target |-> target]

\* The entries of the dependency maps in iteration order, flattened
RECURSIVE DependencyEntries(_)
DependencyEntries(deps) ==
    IF deps = <<>> THEN <<>>
    ELSE [j \in 1..Len(Head(deps).map) |->
            [key |-> Head(deps).key,
             imported |-> Head(deps).map[j].imported,
             dependency |-> Head(deps).map[j].dependency]]
         \o DependencyEntries(Tail(deps))

\* A getRemappings that emits the synthetic entry as soon as the dependency
\* maps have a key, with or without dependencies
getRemappings_NpmForAnyKey(deps, remappings) ==
    LET Emit(entries) ==
            [i \in 1..Len(remappings) |->
                Remapping(remappings[i].context, remappings[i].prefix,
                          remappings[i].target)]
            \o (IF deps = <<>> THEN <<>> ELSE <<Remapping("npm/", "npm/", "npm/")>>)
            \o [i \in 1..Len(entries) |->
                Remapping(IF entries[i].key.sentinel THEN ""
                          ELSE entries[i].key.sourceName,
                          entries[i].imported \o "/",
                          IF entries[i].dependency.sentinel THEN ""
                          ELSE entries[i].dependency.package.rootSourceName)]
    IN Emit(DependencyEntries(deps))

\* A getRemappings that takes the prefix of a package's entry from the name
\* of the package and not from the key of the entry
getRemappings_PrefixFromPackageName(deps, remappings) ==
    LET Emit(entries) ==
            [i \in 1..Len(remappings) |->
                Remapping(remappings[i].context, remappings[i].prefix,
                          remappings[i].target)]
            \o (IF entries = <<>> THEN <<>> ELSE <<Remapping("npm/", "npm/", "npm/")>>)
            \o [i \in 1..Len(entries) |->
                Remapping(IF entries[i].key.sentinel THEN ""
                          ELSE entries[i].key.sourceName,
                          IF entries[i].dependency.sentinel THEN entries[i].imported \o "/"
                          ELSE entries[i].dependency.package.name \o "/",
                          IF entries[i].dependency.sentinel THEN ""
                          ELSE entries[i].dependency.package.rootSourceName)]
    IN Emit(DependencyEntries(deps))

\* getRemappings
getRemappings(deps, remappings) ==
    LET Emit(entries) ==
            [i \in 1..Len(remappings) |->
                Remapping(remappings[i].context, remappings[i].prefix,
                          remappings[i].target)]
            \o (IF entries = <<>> THEN <<>> ELSE <<Remapping("npm/", "npm/", "npm/")>>)
            \o [i \in 1..Len(entries) |->
                Remapping(IF entries[i].key.sentinel THEN ""
                          ELSE entries[i].key.sourceName,
                          entries[i].imported \o "/",
                          IF entries[i].dependency.sentinel THEN ""
                          ELSE entries[i].dependency.package.rootSourceName)]
    IN Emit(DependencyEntries(deps))

\* A validation that takes a target <name>@<version>/ without npm/ for an
\* npm target too, and locates the package
validateAndResolveRemapping_LocatingLocalTargets(projectRoot, remappingString) ==
    LET Invalid(kind, remapping, io) ==
            [kind |-> kind, io |-> io,
             remapping |-> UserRemapping(remappingString, remapping, NoPackage)]
        Located(remapping, parsed, jsonPath) ==
            IF /\ isPackageJsonFromMonorepo(jsonPath, projectRoot)
               /\ parsed.packageVersion # "local"
            THEN Invalid("MonorepoVersionMismatch", remapping, <<"resolve">>)
            ELSE IF isPackageJsonFromProject(jsonPath, projectRoot)
            THEN Invalid("RemapIntoProject", remapping, <<"resolve">>)
            ELSE IF /\ isPackageJsonFromNpmPackage(jsonPath)
                    /\ readJsonFile(jsonPath).version # parsed.packageVersion
            THEN Invalid("PackageVersionMismatch", remapping,
                         <<"resolve", "readJsonFile">>)
            ELSE [kind |-> "ok",
                  io |-> IF isPackageJsonFromNpmPackage(jsonPath)
                         THEN <<"resolve", "readJsonFile">> ELSE <<"resolve">>,
                  remapping |-> UserRemapping(remappingString, remapping,
                      NpmPackage(parsed.packageName, parsed.packageVersion,
                                 PathDirname(jsonPath),
                                 npmPackageToRootSourceName(parsed.packageName,
                                                            parsed.packageVersion)))]
        Resolved(remapping, parsed, dependencyPackageJsonPath) ==
            IF ~dependencyPackageJsonPath.found
            THEN Invalid("PackageNotInstalled", remapping, <<"resolve">>)
            ELSE Located(remapping, parsed, dependencyPackageJsonPath.path)
        Target(remapping, parsed) ==
            IF ~parsed.matched THEN Invalid("InvalidNpmTarget", remapping, <<>>)
            ELSE Resolved(remapping, parsed,
                          resolve(projectRoot, parsed.packageName \o "/package.json"))
        LocalTarget(remapping, parsed) ==
            IF ~parsed.matched
            THEN [kind |-> "ok", io |-> <<>>,
                  remapping |-> UserRemapping(remappingString, remapping, NoPackage)]
            ELSE Resolved(remapping, parsed,
                          resolve(projectRoot, parsed.packageName \o "/package.json"))
        Validate(remapping) ==
            IF StartsWith(remapping.context, "npm/")
            THEN Invalid("InvalidUserRemapping", remapping, <<>>)
            ELSE IF ~StartsWith(remapping.target, "npm/")
            THEN LocalTarget(remapping,
                             parseNpmRemappingTarget("npm/" \o remapping.target))
            ELSE Target(remapping, parseNpmRemappingTarget(remapping.target))
    IN Validate(parseRemappingString(remappingString))

\* validateAndResolveRemapping: the error kind, or "ok" and the UserRemapping
validateAndResolveRemapping(projectRoot, remappingString) ==
    LET Invalid(kind, remapping, io) ==
            [kind |-> kind, io |-> io,
             remapping |-> UserRemapping(remappingString, remapping, NoPackage)]
        Located(remapping, parsed, jsonPath) ==
            IF /\ isPackageJsonFromMonorepo(jsonPath, projectRoot)
               /\ parsed.packageVersion # "local"
            THEN Invalid("MonorepoVersionMismatch", remapping, <<"resolve">>)
            ELSE IF isPackageJsonFromProject(jsonPath, projectRoot)
            THEN Invalid("RemapIntoProject", remapping, <<"resolve">>)
            ELSE IF /\ isPackageJsonFromNpmPackage(jsonPath)
                    /\ readJsonFile(jsonPath).version # parsed.packageVersion
            THEN Invalid("PackageVersionMismatch", remapping,
                         <<"resolve", "readJsonFile">>)
            ELSE [kind |-> "ok",
                  io |-> IF isPackageJsonFromNpmPackage(jsonPath)
                         THEN <<"resolve", "readJsonFile">> ELSE <<"resolve">>,
                  remapping |-> UserRemapping(remappingString, remapping,
                      NpmPackage(parsed.packageName, parsed.packageVersion,
                                 PathDirname(jsonPath),
                                 npmPackageToRootSourceName(parsed.packageName,
                                                            parsed.packageVersion)))]
        Resolved(remapping, parsed, dependencyPackageJsonPath) ==
            IF ~dependencyPackageJsonPath.found
            THEN Invalid("PackageNotInstalled", remapping, <<"resolve">>)
            ELSE Located(remapping, parsed, dependencyPackageJsonPath.path)
        Target(remapping, parsed) ==
            IF ~parsed.matched THEN Invalid("InvalidNpmTarget", remapping, <<>>)
            ELSE Resolved(remapping, parsed,
                          resolve(projectRoot, parsed.packageName \o "/package.json"))
        Validate(remapping) ==
            IF StartsWith(remapping.context, "npm/")
            THEN Invalid("InvalidUserRemapping", remapping, <<>>)
            ELSE IF ~StartsWith(remapping.target, "npm/")
            THEN [kind |-> "ok", io |-> <<>>,
                  remapping |-> UserRemapping(remappingString, remapping, NoPackage)]
            ELSE Target(remapping, parseNpmRemappingTarget(remapping.target))
    IN Validate(parseRemappingString(remappingString))

-----------------------------------------------------------------------------
(* The driver: create once, then any sequence of serialized calls.         *)

\* The driver makes the calls that leave the resolver with at most
\* MaxEntries entries, the resolved files of the cache and the dependencies
\* of the dependency maps counted together
MaxEntries == 5

\* The lists of user remapping strings create is called with
RemappingConfigs == {
    <<>>,
    <<"c/=npm/dep@1.2.3/src/", "@s/u/=npm/dep@1.2.3/">>,
    <<"npm/x:a=b">> }

\* The absolute paths resolveProjectFile is called with
ProjectFilePaths == {
    "/m/p/c/F.sol", "/m/p/c/f.sol", "/m/p/nope.sol", "/m/p/npm/F.sol",
    "/m/p/npm/dep@1.2.3/X.sol", "/m/p/npm/dep@1.2.3/Y.sol",
    "/m/pq/X.sol", "/x/F.sol" }

\* The import strings resolveImport is called with
ImportPaths == {
    "./G.sol", "./g.sol", "../F.sol", "../../O.sol", "./dep@1.2.3/X.sol",
    "./Y.sol", "../outside", "Y.sol",
    "dep/X.sol", "dep/Y.sol", "@s/u/Y.sol", "@s/u/X.sol", "nodep/Z.sol", "c/A.sol",
    "proj/c/F.sol", "proj/npm/dep@1.2.3/X.sol" }

EmptyCache == <<>>

CachedFiles == { cacheBySourceName[sn] : sn \in DOMAIN cacheBySourceName }

Call(op, from, arg, out) ==
    [op |-> op, from |-> from, arg |-> arg,
     kind |-> out.kind, file |-> out.file, detail |-> out.detail, io |-> out.io,
     remappings |-> <<>>, strings |-> <<>>,
     pre |-> [cache |-> cacheBySourceName, deps |-> dependencyMaps]]

NoCall == [op |-> "", from |-> NoFile, arg |-> "", kind |-> "", file |-> NoFile,
           detail |-> "", io |-> <<>>, remappings |-> <<>>, strings |-> <<>>,
           pre |-> [cache |-> EmptyCache, deps |-> <<>>]]

\* The tasks whose calls can overlap
MaxTasks == 2

Tasks == 1..MaxTasks

\* Each ResolvedFile object is built by one call of one task
NoObject == [task |-> 0, call |-> 0]

\* A task that has no call in flight, after `calls` calls
IdleTask(calls) ==
    [pc |-> "idle", calls |-> calls, op |-> "", from |-> NoFile, arg |-> "",
     route |-> [exists |-> FALSE, done |-> FALSE, kind |-> "", detail |-> "",
                plan |-> Plan("", "", "", "", NoFile)],
     manifest |-> "", plan |-> Plan("", "", "", "", NoFile),
     kind |-> "", detail |-> "", file |-> NoFile, object |-> NoObject,
     pre |-> [cache |-> EmptyCache, deps |-> <<>>]]

\* No resolver was created before this one
NoResolver == [created |-> FALSE, userRemappings |-> <<>>, dependencyMaps |-> <<>>]

Init ==
    /\ earlier = NoResolver
    /\ inflight = [t \in Tasks |-> IdleTask(0)]
    /\ cachedObject = EmptyCache
    /\ status = "new"
    /\ userRemappings = <<>>
    /\ cacheBySourceName = EmptyCache
    /\ dependencyMaps = <<>>
    /\ last = NoCall

\* A create that leaves out the remapping strings that do not validate and
\* constructs the resolver with the others
Create_SkippingInvalid(userRemappingStrings) ==
    LET Construct(valid) ==
            /\ status' = "ready"
            /\ userRemappings' = [i \in 1..Len(valid) |-> valid[i].remapping]
            /\ dependencyMaps' = <<[key |-> SentinelKey, map |-> <<>>]>>
            /\ last' = [NoCall EXCEPT !.op = "create", !.kind = "ok",
                                       !.strings = userRemappingStrings]
    IN /\ status = "new"
       /\ Construct(SelectSeq(
                [i \in 1..Len(userRemappingStrings) |->
                    validateAndResolveRemapping(ProjectRoot, userRemappingStrings[i])],
                LAMBDA v : v.kind = "ok"))
       /\ UNCHANGED <<cacheBySourceName, earlier, inflight, cachedObject>>

\* ResolverImplementation.create and the constructor.  Promise.all rejects
\* with the rejection of any one of the remappings that fail.
Create(userRemappingStrings) ==
    LET Construct(validated, failing) ==
            IF failing = {}
            THEN /\ status' = "ready"
                 /\ userRemappings' = [i \in 1..Len(validated) |-> validated[i].remapping]
                 /\ dependencyMaps' = <<[key |-> SentinelKey, map |-> <<>>]>>
                 /\ last' = [NoCall EXCEPT !.op = "create", !.kind = "ok",
                                            !.strings = userRemappingStrings]
            ELSE /\ \E i \in failing :
                     last' = [NoCall EXCEPT !.op = "create", !.kind = validated[i].kind,
                                            !.detail = userRemappingStrings[i],
                                            !.strings = userRemappingStrings]
                 /\ status' = "failed"
                 /\ UNCHANGED <<userRemappings, dependencyMaps>>
        Validated(validated) ==
            Construct(validated,
                      { i \in 1..Len(validated) : validated[i].kind # "ok" })
    IN /\ status = "new"
       /\ Validated([i \in 1..Len(userRemappingStrings) |->
                validateAndResolveRemapping(ProjectRoot, userRemappingStrings[i])])
       /\ UNCHANGED <<cacheBySourceName, earlier, inflight, cachedObject>>

\* Calls are serialized: the driver makes a call when it has taken the
\* result of the one before
Serving ==
    /\ status = "ready"
    /\ last = NoCall

WithinBounds(out) ==
    Cardinality(DOMAIN out.cache) + Len(DependencyEntries(out.deps)) <= MaxEntries

\* The call returns (or throws): the resolver's state is what the call left
Respond(op, from, arg, out) ==
    /\ WithinBounds(out)
    /\ cacheBySourceName' = out.cache
    /\ dependencyMaps' = out.deps
    /\ last' = Call(op, from, arg, out)
    /\ UNCHANGED <<status, userRemappings, earlier, inflight, cachedObject>>

ResolveProjectFile(absoluteFilePath) ==
    /\ Serving
    /\ Respond("resolveProjectFile", NoFile, absoluteFilePath,
               resolveProjectFile(cacheBySourceName, dependencyMaps, absoluteFilePath))

ResolveImport(from, importPath) ==
    /\ Serving
    /\ Respond("resolveImport", from, importPath,
               resolveImport(cacheBySourceName, dependencyMaps, userRemappings,
                             from, importPath))

\* A getRemappings that pushes onto #userRemappings itself and not onto a
\* copy of it
GetRemappings_PushingOnUserRemappings ==
    /\ status = "ready"
    /\ last = NoCall
    /\ last' = [NoCall EXCEPT !.op = "getRemappings", !.kind = "ok",
                    !.remappings = getRemappings(dependencyMaps, userRemappings),
                    !.pre = [cache |-> cacheBySourceName, deps |-> dependencyMaps]]
    /\ userRemappings' =
            LET Pushed(list) ==
                    [i \in 1..Len(list) |->
                        IF i <= Len(userRemappings) THEN userRemappings[i]
                        ELSE UserRemapping("", list[i], NoPackage)]
            IN Pushed(getRemappings(dependencyMaps, userRemappings))
    /\ UNCHANGED <<status, cacheBySourceName, dependencyMaps, earlier, inflight,
                   cachedObject>>

GetRemappings ==
    /\ status = "ready"
    /\ last = NoCall
    /\ last' = [NoCall EXCEPT !.op = "getRemappings", !.kind = "ok",
                    !.remappings = getRemappings(dependencyMaps, userRemappings),
                    !.pre = [cache |-> cacheBySourceName, deps |-> dependencyMaps]]
    /\ UNCHANGED <<status, userRemappings, cacheBySourceName, dependencyMaps, earlier,
                   inflight, cachedObject>>

\* The driver takes the result of its call and goes on
TakeResult ==
    /\ last # NoCall
    /\ last' = NoCall
    /\ UNCHANGED <<status, userRemappings, cacheBySourceName, dependencyMaps, earlier,
                   inflight, cachedObject>>

Next ==
    \/ \E strings \in RemappingConfigs : Create(strings)
    \/ \E path \in ProjectFilePaths : ResolveProjectFile(path)
    \/ \E from \in CachedFiles, importPath \in ImportPaths : ResolveImport(from, importPath)
    \/ GetRemappings
    \/ TakeResult

Spec == Init /\ [][Next]_vars

-----------------------------------------------------------------------------
(* The properties.  `last` is the call that has just returned, with its     *)
(* arguments, its result and the state it started from; the variables hold  *)
(* the state it left.                                                       *)

\* C1: resolveProjectFile(p), for an absolute path p inside the project root
\* whose file exists on disk with exactly the requested casing, returns the
\* ProjectFile whose source name is p relative to the project root, whose
\* path is p and whose content is the content of the file, and the cache
\* holds that file under that source name.
C1_ProjectFileResolved ==
    LET sourceName == Slice(last.arg, Len(ProjectRoot) + 1) IN
    (/\ last.op = "resolveProjectFile"
     /\ StartsWith(last.arg, ProjectRoot \o "/")
     /\ last.arg \in Files)
    => /\ last.kind = "ok"
       /\ last.file = ProjectResolvedFile(sourceName, last.arg, FileContent(last.arg))
       /\ sourceName \in DOMAIN cacheBySourceName
       /\ cacheBySourceName[sourceName] = last.file

\* C2: resolveProjectFile(p) fails with NotWithinProject for every path p
\* that is not under the project root directory, in every state, and leaves
\* the cache and the dependency maps as they were.
C2_OutsideProjectRejected ==
    (/\ last.op = "resolveProjectFile"
     /\ last.arg # ProjectRoot
     /\ ~StartsWith(last.arg, ProjectRoot \o "/"))
    => /\ last.kind = "NotWithinProject"
       /\ cacheBySourceName = last.pre.cache
       /\ dependencyMaps = last.pre.deps

\* C3: resolveProjectFile(p) for a path p inside the project root fails with
\* ProjectFileMissing when no file exists at p, and with IncorrectCasing
\* carrying the true-case path when the file exists only under another
\* casing; in both cases the cache gets no entry.
C3_MissingOrMiscasedRejected ==
    LET relative == Slice(last.arg, Len(ProjectRoot) + 1)
        trueCase == getFileTrueCase(ProjectRoot, relative) IN
    (/\ last.op = "resolveProjectFile"
     /\ StartsWith(last.arg, ProjectRoot \o "/"))
    => /\ ~trueCase.found
          => /\ last.kind = "ProjectFileMissing"
             /\ cacheBySourceName = last.pre.cache
       /\ (trueCase.found /\ trueCase.path # relative)
          => /\ last.kind = "IncorrectCasing"
             /\ last.detail = ProjectRoot \o "/" \o trueCase.path
             /\ cacheBySourceName = last.pre.cache

\* C4: resolveImport from a project file with an import string starting with
\* ./ or ../ computes direct = join(dirname(from.sourceName), importPath); it
\* fails with ImportOutsideProject exactly when direct begins with ../, and
\* otherwise, no user remapping matching and the file existing with that
\* casing, returns the ProjectFile whose source name is direct.
C4_RelativeImportFromProject ==
    LET direct == PathJoin(PathDirname(last.from.sourceName), last.arg) IN
    (/\ last.op = "resolveImport"
     /\ last.from.type = PROJECT_FILE
     /\ IsRelativeImport(last.arg))
    => /\ last.kind = "ImportOutsideProject" <=> StartsWith(direct, "../")
       /\ (/\ ~StartsWith(direct, "../")
           /\ selectBestRemapping(last.from.sourceName, direct, userRemappings) = 0
           /\ (ProjectRoot \o "/" \o direct) \in Files)
          => /\ last.kind = "ok"
             /\ last.file = ProjectResolvedFile(direct, ProjectRoot \o "/" \o direct,
                                FileContent(ProjectRoot \o "/" \o direct))

\* C5: resolveImport from a package file with an import string starting with
\* ./ or ../ fails with ImportOutsidePackage whenever the joined direct
\* import does not begin with from.package.rootSourceName; the call has then
\* performed no file system or package lookup and has changed neither the
\* cache nor the dependency maps.
C5_ImportOutsidePackageRejected ==
    (/\ last.op = "resolveImport"
     /\ last.from.type = NPM_PACKGE_FILE
     /\ IsRelativeImport(last.arg)
     /\ ~StartsWith(PathJoin(PathDirname(last.from.sourceName), last.arg),
                    last.from.package.rootSourceName))
    => /\ last.kind = "ImportOutsidePackage"
       /\ last.io = <<>>
       /\ cacheBySourceName = last.pre.cache
       /\ dependencyMaps = last.pre.deps

\* A package file has imported "../outside" and the call has failed
C5_Witness ==
    /\ last.op = "resolveImport"
    /\ last.from.type = NPM_PACKGE_FILE
    /\ last.from.sourceName = "npm/dep@1.2.3/X.sol"
    /\ last.arg = "../outside"
    /\ last.kind = "ImportOutsidePackage"

\* C6: an intra-package import succeeds: from a PackageFile of package K, a
\* relative import, or a direct import that is local to K's root, naming a
\* file that exists with that casing at K.rootPath/rel returns the
\* PackageFile with source name K.rootSourceName + rel, package K and the
\* content of that file, and adds no dependency.
C6_IntraPackageImportResolved ==
    LET K == last.from.package
        direct == DirectImport(last.from, last.arg)
        rel == IF IsRelativeImport(last.arg)
               THEN Slice(direct, Len(K.rootSourceName))
               ELSE direct IN
    (/\ last.op = "resolveImport"
     /\ last.from.type = NPM_PACKGE_FILE
     /\ IF IsRelativeImport(last.arg)
        THEN StartsWith(direct, K.rootSourceName)
        ELSE isDirectImportLocal(K.rootPath, direct).local
     /\ (K.rootPath \o "/" \o rel) \in Files)
    => /\ last.kind = "ok"
       /\ last.file = NpmPackageResolvedFile(K.rootSourceName \o rel,
                          K.rootPath \o "/" \o rel,
                          FileContent(K.rootPath \o "/" \o rel), K)
       /\ dependencyMaps = last.pre.deps

\* C7: from a project file with no matching user remapping, a non-local
\* direct import "<pkg>/<path>" of an installed package returns a
\* PackageFile with source name npm/<name>@<version>/<path> and
\* package.rootSourceName npm/<name>@<version>/, name and version being the
\* manifest's, and getRemappings() then holds ("", "<pkg>/", that root
\* source name) and the synthetic (npm/, npm/, npm/); scoped packages too.
C7_NpmImportFromProject ==
    LET parsed == parseNpmDirectImport(last.arg)
        manifest == resolve(ProjectRoot, parsed.package \o "/package.json")
        json == readJsonFile(manifest.path)
        root == npmPackageToRootSourceName(json.name, json.version)
        emitted == getRemappings(dependencyMaps, userRemappings) IN
    (/\ last.op = "resolveImport"
     /\ last.from.type = PROJECT_FILE
     /\ ~IsRelativeImport(last.arg)
     /\ selectBestRemapping(last.from.sourceName, last.arg, userRemappings) = 0
     /\ ~isDirectImportLocal(ProjectRoot, last.arg).local
     /\ parsed.matched
     /\ manifest.found
     /\ isPackageJsonFromNpmPackage(manifest.path)
     /\ (PathDirname(manifest.path) \o "/" \o parsed.path) \in Files)
    => /\ last.kind = "ok"
       /\ last.file.type = NPM_PACKGE_FILE
       /\ last.file.sourceName = root \o parsed.path
       /\ last.file.package.rootSourceName = root
       /\ \E i \in 1..Len(emitted) :
            emitted[i] = Remapping("", parsed.package \o "/", root)
       /\ \E i \in 1..Len(emitted) : emitted[i] = Remapping("npm/", "npm/", "npm/")

\* C8: when a package file imports "<name>/<path>" and the locator resolves
\* <name> from the package's root to the project's own manifest, the
\* dependency (package root source name, <name>) is the project sentinel,
\* the result is the ProjectFile with source name <path>, the one the cache
\* holds under <path>, and getRemappings() holds (package root source name,
\* "<name>/", "").
C8_PackageImportsProjectFile ==
    LET K == last.from.package
        parsed == parseNpmDirectImport(last.arg)
        manifest == resolve(K.rootPath, parsed.package \o "/package.json")
        key == PackageKey(K.rootSourceName)
        emitted == getRemappings(dependencyMaps, userRemappings) IN
    (/\ last.op = "resolveImport"
     /\ last.from.type = NPM_PACKGE_FILE
     /\ ~IsRelativeImport(last.arg)
     /\ ~StartsWith(last.arg, K.rootSourceName)
     /\ ~isDirectImportLocal(K.rootPath, last.arg).local
     /\ parsed.matched
     /\ manifest = Found(ProjectRoot \o "/package.json")
     /\ (ProjectRoot \o "/" \o parsed.path) \in Files)
    => /\ HasDependency(dependencyMaps, key, parsed.package)
       /\ GetDependency(dependencyMaps, key, parsed.package) = SentinelDependency
       /\ last.kind = "ok"
       /\ last.file = ProjectResolvedFile(parsed.path, ProjectRoot \o "/" \o parsed.path,
                          FileContent(ProjectRoot \o "/" \o parsed.path))
       /\ parsed.path \in DOMAIN cacheBySourceName
       /\ cacheBySourceName[parsed.path] = last.file
       /\ \E i \in 1..Len(emitted) :
            emitted[i] = Remapping(K.rootSourceName, parsed.package \o "/", "")

\* C9: with a user remapping whose target is npm/<name>@<version>/...
\* accepted at construction, an import from a project file that the
\* remapping matches resolves to the PackageFile whose source name is the
\* import with the remapping's prefix replaced by its target and whose
\* package is the remapping's target package, the file being the one under
\* that package's root.
C9_UserRemappedNpmImport ==
    LET direct == DirectImport(last.from, last.arg)
        best == selectBestRemapping(last.from.sourceName, direct, userRemappings)
        remapping == userRemappings[best]
        sourceName == remapping.target \o Slice(direct, Len(remapping.prefix))
        K == remapping.targetNpmPackage
        filePath == K.rootPath \o "/" \o Slice(sourceName, Len(K.rootSourceName)) IN
    (/\ last.op = "resolveImport"
     /\ last.from.type = PROJECT_FILE
     /\ IsRelativeImport(last.arg) => ~StartsWith(direct, "../")
     /\ best # 0
     /\ K # NoPackage
     /\ filePath \in Files)
    => /\ last.kind = "ok"
       /\ last.file = NpmPackageResolvedFile(sourceName, filePath, FileContent(filePath), K)

\* C10: resolveImport from a package file never selects or applies a user
\* remapping: whatever the user remappings, the call does what it does with
\* no user remapping at all, and the source name it produces is the one of
\* the intra-package rule or of the npm resolution of the unremapped direct
\* import.
C10_PackageImportsNotRemapped ==
    LET K == last.from.package
        direct == DirectImport(last.from, last.arg)
        parsed == parseNpmDirectImport(direct)
        dependency == GetDependency(dependencyMaps, PackageKey(K.rootSourceName),
                                    parsed.package)
        unremapped == resolveImport(last.pre.cache, last.pre.deps, <<>>,
                                    last.from, last.arg) IN
    (/\ last.op = "resolveImport"
     /\ last.from.type = NPM_PACKGE_FILE)
    => /\ last.kind = unremapped.kind
       /\ last.file = unremapped.file
       /\ cacheBySourceName = unremapped.cache
       /\ dependencyMaps = unremapped.deps
       /\ last.kind = "ok"
          => last.file.sourceName =
                IF StartsWith(direct, K.rootSourceName) THEN direct
                ELSE IF isDirectImportLocal(K.rootPath, direct).local
                THEN K.rootSourceName \o direct
                ELSE IF dependency.sentinel THEN parsed.path
                ELSE dependency.package.rootSourceName \o parsed.path

\* A package file has imported "@s/u/Y.sol", which a user remapping with an
\* empty context matches, and got the file of the package @s/u
C10_Witness ==
    /\ last.op = "resolveImport"
    /\ last.from.type = NPM_PACKGE_FILE
    /\ last.arg = "@s/u/Y.sol"
    /\ selectBestRemapping(last.from.sourceName, last.arg, userRemappings) # 0
    /\ userRemappings[selectBestRemapping(last.from.sourceName, last.arg,
                                          userRemappings)].context = ""
    /\ last.kind = "ok"
    /\ last.file.sourceName = "npm/@s/u@0.0.1/Y.sol"

-----------------------------------------------------------------------------
(* The resolver driven with imports of hardhat/console.sol                  *)

NextConsole ==
    \/ \E strings \in
            { <<>>, <<"hardhat/console.sol=c/F.sol">> } : Create(strings)
    \/ \E path \in
            { "/m/p/c/F.sol", "/m/p/hardhat/console.sol" } : ResolveProjectFile(path)
    \/ \E from \in CachedFiles, importPath \in
            { "hardhat/console.sol", "./console.sol", "dep/X.sol", "./G.sol" } :
            ResolveImport(from, importPath)
    \/ GetRemappings
    \/ TakeResult

SpecConsole == Init /\ [][NextConsole]_vars

\* What the last call must have done to have gone through npm resolution:
\* no look at the root's directories, and the outcome of
\* #resolveImportThroughNpm carried out
ThroughNpm ==
    LET Run(step) ==
            IF step.done THEN step.out
            ELSE CachedOrResolve(last.pre.cache, step.deps, step.io, step.plan)
        Same(out) ==
            /\ last.kind = out.kind
            /\ last.file = out.file
            /\ last.io = out.io
            /\ cacheBySourceName = out.cache
            /\ dependencyMaps = out.deps
    IN /\ \A i \in 1..Len(last.io) : last.io[i] # "exists"
       /\ Same(Run(resolveImportThroughNpm(last.pre.cache, last.pre.deps, <<>>,
                        last.from, DirectImport(last.from, last.arg))))
       /\ last.kind = "ok"
          => /\ last.file.path # ProjectRoot \o "/hardhat/console.sol"
             /\ last.from.type = NPM_PACKGE_FILE
                => last.file.path # last.from.package.rootPath \o "/hardhat/console.sol"

-----------------------------------------------------------------------------
\* C12: when resolveProjectFile or resolveImport fails with any error the
\* cache is what it was before the call; a successful call either leaves
\* the cache alone or adds the one entry of the file it returns, under a
\* source name that was not cached.
C12_FailureLeavesCache ==
    last.op \in {"resolveProjectFile", "resolveImport"}
    => /\ last.kind # "ok" => cacheBySourceName = last.pre.cache
       /\ last.kind = "ok"
          => \/ cacheBySourceName = last.pre.cache
             \/ /\ last.file.sourceName \notin DOMAIN last.pre.cache
                /\ cacheBySourceName =
                       CacheSet(last.pre.cache, last.file.sourceName, last.file)

\* An import has failed after its validation started, with files cached
C12_Witness ==
    /\ last.op = "resolveImport"
    /\ last.kind \in {"ImportedFileMissing", "IncorrectCasing", "FileNotFoundError"}
    /\ Len(last.io) > 0
    /\ DOMAIN last.pre.cache # {}
    /\ cacheBySourceName = last.pre.cache

-----------------------------------------------------------------------------
\* C13: when resolveImport fails with any error the dependency map, and so
\* the list getRemappings() returns, is what it was before the call.
C13_FailureLeavesDependencies ==
    (last.op = "resolveImport" /\ last.kind # "ok")
    => /\ dependencyMaps = last.pre.deps
       /\ getRemappings(dependencyMaps, userRemappings) =
              getRemappings(last.pre.deps, userRemappings)

-----------------------------------------------------------------------------
\* The dependency-map slots: (origin, imported package name, dependency)
Slots(deps) ==
    LET Of(entries) == { entries[i] : i \in 1..Len(entries) }
    IN Of(DependencyEntries(deps))

\* No (origin, imported package name) is set twice
WrittenOnce(deps) ==
    LET Distinct(entries) ==
            \A i, j \in 1..Len(entries) :
                (/\ entries[i].key = entries[j].key
                 /\ entries[i].imported = entries[j].imported) => i = j
    IN Distinct(DependencyEntries(deps))

\* The origin key of a file
KeyOf(from) ==
    IF from.type = PROJECT_FILE THEN SentinelKey
    ELSE PackageKey(from.package.rootSourceName)

\* resolveImport(from, importPath) gets to #resolveImportThroughNpm and the
\* direct import names a package
ReachesNpm(remappings, from, importPath) ==
    LET Route(directImport) ==
            /\ parseNpmDirectImport(directImport).matched
            /\ IF from.type = PROJECT_FILE
               THEN /\ ~(IsRelativeImport(importPath) /\ StartsWith(directImport, "../"))
                    /\ selectBestRemapping(from.sourceName, directImport, remappings) = 0
                    /\ ~isDirectImportLocal(ProjectRoot, directImport).local
               ELSE /\ ~StartsWith(directImport, from.package.rootSourceName)
                    /\ ~IsRelativeImport(importPath)
                    /\ ~isDirectImportLocal(from.package.rootPath, directImport).local
    IN Route(DirectImport(from, importPath))

\* The call made by this step is a technique-4 resolution of a slot that
\* is already set
ReusesSlot ==
    /\ last'.op = "resolveImport"
    /\ ReachesNpm(userRemappings, last'.from, last'.arg)
    /\ HasDependency(dependencyMaps, KeyOf(last'.from),
           parseNpmDirectImport(DirectImport(last'.from, last'.arg)).package)

\* C14: each dependency-map slot (origin, imported package name) is set at
\* most once and then never overwritten or removed; a technique-4
\* resolution of a slot that is set does not consult the package locator
\* and leaves the dependency map unchanged.
C14_SlotWrittenOnce ==
    [][/\ Slots(dependencyMaps) \subseteq Slots(dependencyMaps')
       /\ WrittenOnce(dependencyMaps')
       /\ ReusesSlot
          => /\ dependencyMaps' = dependencyMaps
             /\ \A i \in 1..Len(last'.io) : last'.io[i] # "resolve"]_vars

\* A technique-4 resolution has found its slot set and has resolved the
\* file through the stored dependency
C14_Witness ==
    /\ last.op = "resolveImport"
    /\ last.kind = "ok"
    /\ ReachesNpm(userRemappings, last.from, last.arg)
    /\ HasDependency(last.pre.deps, KeyOf(last.from),
           parseNpmDirectImport(DirectImport(last.from, last.arg)).package)
    /\ dependencyMaps = last.pre.deps
    /\ "getFileTrueCase" \in { last.io[i] : i \in 1..Len(last.io) }

-----------------------------------------------------------------------------
\* A ResolvedFile object is built where the file's content has been read
\* (index.ts 162-167, 564-568, 630-635, 682-687, 735-740); a call that has
\* not read returns an object built before
BuildsFile == \E i \in 1..Len(last.io) : last.io[i] = "readUtf8File"

\* C15: calls being serialized, two successful resolutions that yield the
\* same source name return the identical ResolvedFile object, by whatever
\* routes and in whatever order: a successful call whose source name has
\* been yielded before builds no file and returns the object that is in
\* the cache, a call that builds a file puts that object in the cache
\* under a source name that was not there, and no cached object is replaced.
C15_SameSourceNameSameFile ==
    (last.op \in {"resolveProjectFile", "resolveImport"} /\ last.kind = "ok")
    => /\ \A sn \in DOMAIN last.pre.cache :
             /\ sn \in DOMAIN cacheBySourceName
             /\ cacheBySourceName[sn] = last.pre.cache[sn]
       /\ last.file.sourceName \in DOMAIN cacheBySourceName
       /\ cacheBySourceName[last.file.sourceName] = last.file
       /\ BuildsFile <=> last.file.sourceName \notin DOMAIN last.pre.cache

\* A package's back-import has yielded the source name of a project file
\* that resolveProjectFile had returned, and has returned that object
C15_Witness ==
    /\ last.op = "resolveImport"
    /\ last.kind = "ok"
    /\ last.from.type = NPM_PACKGE_FILE
    /\ last.arg = "proj/c/F.sol"
    /\ "c/F.sol" \in DOMAIN last.pre.cache
    /\ last.file = last.pre.cache["c/F.sol"]
    /\ last.file.type = PROJECT_FILE
    /\ ~BuildsFile

-----------------------------------------------------------------------------
\* The last call was answered by a project-file resolution: resolveProjectFile,
\* or an import that technique 1 resolved
ProjectResolution ==
    \/ last.op = "resolveProjectFile"
    \/ /\ last.op = "resolveImport"
       /\ LET Step(step) == ~step.done /\ step.plan.file.type = PROJECT_FILE
          IN Step(SelectTechnique(last.pre.cache, last.pre.deps, userRemappings,
                                  last.from, last.arg))

\* The last call was answered by a package resolution (technique 2, 3 or 4
\* into a package)
PackageResolution ==
    /\ last.op = "resolveImport"
    /\ LET Step(step) == ~step.done /\ step.plan.file.type = NPM_PACKGE_FILE
       IN Step(SelectTechnique(last.pre.cache, last.pre.deps, userRemappings,
                               last.from, last.arg))

\* C16: project and package source names never collide: every file that
\* resolveProjectFile or technique 1 returns is a ProjectFile, and every
\* file that technique 2, 3 or 4 into a package returns is a PackageFile
\* carrying a package, also in a project with a top-level directory npm.
C16_NoCollision ==
    last.kind = "ok"
    => /\ ProjectResolution
          => /\ last.file.type = PROJECT_FILE
             /\ last.file.package = NoPackage
       /\ PackageResolution
          => /\ last.file.type = NPM_PACKGE_FILE
             /\ last.file.package # NoPackage

-----------------------------------------------------------------------------
(* The resolver driven with imports between the files of the package @s/u, *)
(* which has a directory named as its root source name                      *)

NextPackage ==
    \/ \E strings \in { <<>>, <<"c/=npm/@s/u@0.0.1/">> } : Create(strings)
    \/ \E path \in { "/m/p/c/F.sol", "/m/p/c/G.sol" } : ResolveProjectFile(path)
    \/ \E from \in CachedFiles, importPath \in
            { "@s/u/Y.sol", "@s/u/Z.sol", "./Z.sol", "Z.sol", "./Y.sol",
              "c/Y.sol", "./G.sol", "dep/X.sol", "npm/dep@1.2.3/X.sol",
              "npm/nope.sol", "nope.sol", "c/g.sol" } :
            ResolveImport(from, importPath)
    \/ GetRemappings
    \/ TakeResult

SpecPackage == Init /\ [][NextPackage]_vars

\* The invariant of a PackageFile
PackageFileInvariant(f) ==
    /\ StartsWith(f.sourceName, f.package.rootSourceName)
    /\ f.path = f.package.rootPath \o "/"
                    \o Slice(f.sourceName, Len(f.package.rootSourceName))

\* C17: every PackageFile returned or cached has a source name that starts
\* with its package's root source name and the path: package root path,
\* "/", the source name without that prefix; whether technique 2, 3 or 4
\* produced it.
C17_PackageFileInvariant ==
    /\ \A f \in CachedFiles : f.type = NPM_PACKGE_FILE => PackageFileInvariant(f)
    /\ (last.kind = "ok" /\ last.file.type = NPM_PACKGE_FILE)
       => PackageFileInvariant(last.file)

-----------------------------------------------------------------------------
(* The resolver driven with local remappings whose targets are not         *)
(* project-relative paths, and with absolute paths that are not normalized *)

NextLocal ==
    \/ \E strings \in
            { <<>>,
              <<"v/=c/", "w/=c//", "x/=../pq/", "y/=./c/", "z/=/m/p/c/", "u/=c/../c/">> } :
            Create(strings)
    \/ \E path \in
            { "/m/p/c/F.sol", "/m/p/./c/G.sol", "/m/p/c/../F.sol" } : ResolveProjectFile(path)
    \/ \E from \in CachedFiles, importPath \in
            { "./G.sol", "v/G.sol", "w/G.sol", "x/X.sol", "y/G.sol",
              "z/G.sol", "u/G.sol", "c/F.sol", "proj/c/F.sol", "dep/X.sol" } :
            ResolveImport(from, importPath)
    \/ GetRemappings
    \/ TakeResult

SpecLocal == Init /\ [][NextLocal]_vars

\* The invariant of a ProjectFile
ProjectFileInvariant(f) ==
    /\ ~StartsWith(f.sourceName, "/")
    /\ \A i \in 1..Len(Split(f.sourceName)) :
            Split(f.sourceName)[i] \notin {".", ".."}
    /\ f.path = ProjectRoot \o "/" \o f.sourceName

\* C18: every ProjectFile returned or cached has a source name with no
\* leading slash, no ./ and no .. segment, and the path: project root,
\* "/", source name; for every accepted list of user remappings, local
\* remappings with arbitrary targets included.
C18_ProjectFileInvariant ==
    /\ \A f \in CachedFiles : f.type = PROJECT_FILE => ProjectFileInvariant(f)
    /\ (last.kind = "ok" /\ last.file.type = PROJECT_FILE)
       => ProjectFileInvariant(last.file)

-----------------------------------------------------------------------------
\* C19: getRemappings() returns, in this order: the user remappings in
\* declaration order as (context, prefix, target); the synthetic entry
\* (npm/, npm/, npm/) once, if and only if the dependency maps hold a
\* dependency; one triple per dependency: context "" for the project
\* origin, else the origin's root source name; prefix the imported name and
\* "/"; target "" for the project, else the dependency's root source name.
C19_RemappingsOrder ==
    last.op = "getRemappings"
    => LET R == last.remappings
           U == userRemappings
           E == DependencyEntries(dependencyMaps)
           u == Len(userRemappings)
           n == Cardinality(Slots(dependencyMaps))
       IN /\ Len(R) = u + (IF n = 0 THEN 0 ELSE 1) + n
          /\ \A i \in 1..u :
                R[i] = [context |-> U[i].context, prefix |-> U[i].prefix,
                        target |-> U[i].target]
          /\ n > 0 => R[u + 1] = [context |-> "npm/", prefix |-> "npm/",
                                  target |-> "npm/"]
          /\ \A k \in 1..n :
                R[u + 1 + k] =
                    [context |-> IF E[k].key = SentinelKey THEN ""
                                 ELSE E[k].key.sourceName,
                     prefix |-> E[k].imported \o "/",
                     target |-> IF E[k].dependency = SentinelDependency THEN ""
                                ELSE E[k].dependency.package.rootSourceName]

\* getRemappings() has answered with user remappings declared, a package
\* dependency of the project and the project as a dependency of a package
C19_Witness ==
    /\ last.op = "getRemappings"
    /\ Len(userRemappings) >= 2
    /\ \E e \in Slots(dependencyMaps) :
            e.key = SentinelKey /\ e.dependency # SentinelDependency
    /\ \E e \in Slots(dependencyMaps) :
            e.key # SentinelKey /\ e.dependency = SentinelDependency

-----------------------------------------------------------------------------
(* The resolver created with user remappings that share context and prefix *)

NextShared ==
    \/ \E strings \in
            { <<>>, <<"v/=c/", "v/=c/">>,
              <<"c/:v/=c/", "c/:v/=npm/dep@1.2.3/">> } : Create(strings)
    \/ \E path \in { "/m/p/c/F.sol", "/m/p/c/G.sol" } : ResolveProjectFile(path)
    \/ \E from \in CachedFiles, importPath \in
            { "./G.sol", "v/G.sol", "v/X.sol", "dep/X.sol", "proj/c/F.sol",
              "@s/u/Y.sol" } :
            ResolveImport(from, importPath)
    \/ GetRemappings
    \/ TakeResult

SpecShared == Init /\ [][NextShared]_vars

\* C20: in every reachable state and for every accepted list of user
\* remapping strings, the list getRemappings() returns has at most one
\* triple with a given (context, prefix).
C20_OneTriplePerContextPrefix ==
    last.op = "getRemappings"
    => \A i, j \in 1..Len(last.remappings) :
            (/\ last.remappings[i].context = last.remappings[j].context
             /\ last.remappings[i].prefix = last.remappings[j].prefix) => i = j

-----------------------------------------------------------------------------
(* Two resolvers created one after the other with the same user remappings *)
(* in the same project; the first is kept as it was when the second was    *)
(* created                                                                  *)

\* ResolverImplementation.create called again with the same remapping
\* strings: the constructor gives the new resolver an empty cache and the
\* dependency maps with the project's empty inner map
CreateAgain ==
    /\ Serving
    /\ ~earlier.created
    /\ earlier' = [created |-> TRUE, userRemappings |-> userRemappings,
                   dependencyMaps |-> dependencyMaps]
    /\ cacheBySourceName' = EmptyCache
    /\ dependencyMaps' = <<[key |-> SentinelKey, map |-> <<>>]>>
    /\ last' = [NoCall EXCEPT !.op = "create", !.kind = "ok",
                    !.strings = [i \in 1..Len(userRemappings) |->
                                    userRemappings[i].rawFormat]]
    /\ UNCHANGED <<status, userRemappings, inflight, cachedObject>>

NextPair ==
    \/ \E strings \in { <<>>, <<"c/=npm/dep@1.2.3/src/">> } : Create(strings)
    \/ CreateAgain
    \/ \E path \in { "/m/p/c/F.sol" } : ResolveProjectFile(path)
    \/ \E from \in CachedFiles, importPath \in { "dep/X.sol", "@s/u/Y.sol" } :
            ResolveImport(from, importPath)
    \/ GetRemappings
    \/ TakeResult

SpecPair == Init /\ [][NextPair]_vars

\* C21: two resolvers created with the same user remappings whose
\* dependency maps hold the same (origin, imported, dependency) entries
\* return the same list from getRemappings(), in the same order, whatever
\* the order in which the imports that made the entries were resolved.
C21_RemappingsOrderStable ==
    (/\ earlier.created
     /\ earlier.userRemappings = userRemappings
     /\ Slots(earlier.dependencyMaps) = Slots(dependencyMaps))
    => getRemappings(earlier.dependencyMaps, earlier.userRemappings) =
           getRemappings(dependencyMaps, userRemappings)

-----------------------------------------------------------------------------
\* C22: getRemappings() is pure: the call changes neither the cache nor
\* the dependency maps (nor the user remappings), and a second call with
\* no resolution in between returns a list equal to the one returned.
C22_GetRemappingsPure ==
    [][last'.op = "getRemappings"
       => /\ cacheBySourceName' = cacheBySourceName
          /\ dependencyMaps' = dependencyMaps
          /\ userRemappings' = userRemappings
          /\ last'.remappings = getRemappings(dependencyMaps', userRemappings')]_vars

\* getRemappings() has been called on a resolver with user remappings,
\* cached files and dependencies, and has returned their triples
C22_Witness ==
    /\ last.op = "getRemappings"
    /\ userRemappings # <<>>
    /\ Slots(dependencyMaps) # {}
    /\ DOMAIN cacheBySourceName # {}
    /\ cacheBySourceName = last.pre.cache
    /\ dependencyMaps = last.pre.deps
    /\ Len(last.remappings) > Len(userRemappings)

-----------------------------------------------------------------------------
-----------------------------------------------------------------------------
(* create called with lists of remapping strings that pass or fail each    *)
(* step of the validation                                                   *)

NextCreate ==
    \/ \E strings \in
            { <<>>, <<"c/=npm/dep@1.2.3/src/", "npm/x:a=b">>,
              <<"npm/x:a=b", "a/=npm/nodep@1.0.0/">>, <<"a/=npm/dep/">>,
              <<"a/=npm/nodep@1.0.0/">>, <<"a/=npm/proj@0.1.0/">>,
              <<"a/=npm/sib@0.5.0/">>, <<"a/=npm/dep@9.9.9/">>,
              <<"a/=npm/dep@local/">>, <<"a/=npm/pq@local/">>,
              <<"a/=npm/dep@1.2.3/", "b/=npm/sib@local/", "d/=c/", "e/=dep@1.2.3/">> } :
            Create(strings)
    \/ \E path \in { "/m/p/c/F.sol" } : ResolveProjectFile(path)
    \/ \E from \in CachedFiles, importPath \in
            { "a/X.sol", "b/S.sol", "d/G.sol", "e/Z.sol", "./G.sol" } :
            ResolveImport(from, importPath)
    \/ GetRemappings
    \/ TakeResult

SpecCreate == Init /\ [][NextCreate]_vars

\* The validation of each of the strings the last create was called with
Validations ==
    [i \in 1..Len(last.strings) |->
        validateAndResolveRemapping(ProjectRoot, last.strings[i])]

\* C24: create fails fast: if a remapping string has a context that begins
\* with npm/ (InvalidUserRemapping) or fails another step of the validation,
\* create rejects, with the error of a failing string, and there is no
\* resolver; there is a resolver, with the validated remappings in the
\* order of the strings, only if every string validated, and only a
\* resolver serves calls.
C24_CreateFailsFast ==
    /\ last.op = "create"
       => LET Settled(v) ==
                /\ \A i \in 1..Len(v) :
                        StartsWith(parseRemappingString(last.strings[i]).context, "npm/")
                        => v[i].kind = "InvalidUserRemapping"
                /\ (\E i \in 1..Len(v) : v[i].kind # "ok")
                   => /\ status = "failed"
                      /\ last.kind # "ok"
                      /\ \E i \in 1..Len(v) :
                            v[i].kind = last.kind /\ last.strings[i] = last.detail
                      /\ userRemappings = <<>>
                      /\ dependencyMaps = <<>>
                /\ (\A i \in 1..Len(v) : v[i].kind = "ok")
                   => /\ status = "ready"
                      /\ last.kind = "ok"
                      /\ userRemappings = [i \in 1..Len(v) |-> v[i].remapping]
          IN Settled(Validations)
    /\ status # "ready"
       => /\ last.op \in {"", "create"}
          /\ cacheBySourceName = EmptyCache
          /\ dependencyMaps = <<>>

\* create has rejected a list whose first string is valid and whose second
\* string has a context that begins with npm/
C24_Witness ==
    /\ last.op = "create"
    /\ Len(last.strings) = 2
    /\ Validations[1].kind = "ok"
    /\ Validations[2].kind = "InvalidUserRemapping"
    /\ last.kind = "InvalidUserRemapping"
    /\ status = "failed"

-----------------------------------------------------------------------------
\* The class of a located manifest: Installed if its path contains
\* node_modules, else Project if it lies inside the project root directory,
\* else Monorepo sibling
ManifestClass(packageJsonPath) ==
    IF Includes(packageJsonPath, "node_modules") THEN "Installed"
    ELSE IF StartsWith(packageJsonPath, ProjectRoot \o "/") THEN "Project"
    ELSE "Monorepo"

\* The decision table of a remapping whose target begins with npm/
NpmTargetDecision(remappingString) ==
    LET Decide(remapping, parsed, manifest) ==
            IF ~parsed.matched THEN "InvalidNpmTarget"
            ELSE IF ~manifest.found THEN "PackageNotInstalled"
            ELSE IF ManifestClass(manifest.path) = "Project" THEN "RemapIntoProject"
            ELSE IF /\ ManifestClass(manifest.path) = "Monorepo"
                    /\ parsed.packageVersion # "local"
            THEN "MonorepoVersionMismatch"
            ELSE IF /\ ManifestClass(manifest.path) = "Installed"
                    /\ readJsonFile(manifest.path).version # parsed.packageVersion
            THEN "PackageVersionMismatch"
            ELSE "ok"
        Parsed(remapping, parsed) ==
            Decide(remapping, parsed,
                   resolve(ProjectRoot, parsed.packageName \o "/package.json"))
        Target(remapping) == Parsed(remapping, parseNpmRemappingTarget(remapping.target))
    IN Target(parseRemappingString(remappingString))

\* C25: the validation of a user remapping whose target begins with npm/
\* follows the decision table: malformed target, InvalidNpmTarget; package
\* not locatable from the project root, PackageNotInstalled; the project's
\* own manifest, RemapIntoProject; a monorepo sibling with a declared
\* version other than local, MonorepoVersionMismatch; a manifest under
\* node_modules with another version, PackageVersionMismatch; otherwise the
\* remapping is accepted with target_package = {name, declared version,
\* dir(manifest), npm/<name>@<version>/}.
C25_NpmTargetDecisionTable ==
    last.op = "create"
    => \A i \in 1..Len(last.strings) :
          LET Row(remapping, parsed, v) ==
                (/\ ~StartsWith(remapping.context, "npm/")
                 /\ StartsWith(remapping.target, "npm/"))
                => /\ v.kind = NpmTargetDecision(last.strings[i])
                   /\ v.kind = "ok"
                      => v.remapping.targetNpmPackage =
                            NpmPackage(parsed.packageName, parsed.packageVersion,
                                PathDirname(resolve(ProjectRoot,
                                    parsed.packageName \o "/package.json").path),
                                "npm/" \o parsed.packageName \o "@"
                                       \o parsed.packageVersion \o "/")
              Parsed(remapping) ==
                Row(remapping, parseNpmRemappingTarget(remapping.target), Validations[i])
          IN Parsed(parseRemappingString(last.strings[i]))

-----------------------------------------------------------------------------
\* C26: an accepted user remapping has a target package if and only if its
\* target begins with npm/; a remapping whose target does not begin with
\* npm/ is accepted as local with no package lookup and no manifest read.
C26_TargetPackageIffNpmTarget ==
    /\ \A i \in 1..Len(userRemappings) :
          userRemappings[i].targetNpmPackage # NoPackage
          <=> StartsWith(userRemappings[i].target, "npm/")
    /\ last.op = "create"
       => \A i \in 1..Len(last.strings) :
             LET Local(remapping, v) ==
                    (/\ ~StartsWith(remapping.context, "npm/")
                     /\ ~StartsWith(remapping.target, "npm/"))
                    => /\ v.kind = "ok"
                       /\ v.io = <<>>
                       /\ v.remapping.targetNpmPackage = NoPackage
             IN Local(parseRemappingString(last.strings[i]), Validations[i])

\* create has accepted a list with remappings into an installed package and
\* into a monorepo sibling and with local remappings, one of them to a
\* target that is the name of no directory and no package
C26_Witness ==
    /\ last.op = "create"
    /\ last.kind = "ok"
    /\ \E i \in 1..Len(userRemappings) :
            /\ userRemappings[i].targetNpmPackage # NoPackage
            /\ userRemappings[i].targetNpmPackage.version = "local"
    /\ \E i \in 1..Len(userRemappings) :
            /\ userRemappings[i].targetNpmPackage # NoPackage
            /\ userRemappings[i].targetNpmPackage.version # "local"
    /\ \E i \in 1..Len(userRemappings) : userRemappings[i].target = "dep@1.2.3/"
    /\ \E i \in 1..Len(userRemappings) : userRemappings[i].target = "c/"

-----------------------------------------------------------------------------
\* C27: from a project file, when the best matching user remapping has no
\* target package: if the remapped direct import is local to the project
\* root it is resolved by technique 1 with the remapped string as source
\* name; otherwise resolveImport fails with RemapNotLocal, does not go on to
\* npm resolution, and leaves the cache and the dependency maps unchanged.
C27_LocalRemapping ==
    (/\ last.op = "resolveImport"
     /\ last.from.type = PROJECT_FILE
     /\ ~(IsRelativeImport(last.arg)
          /\ StartsWith(DirectImport(last.from, last.arg), "../"))
     /\ selectBestRemapping(last.from.sourceName, DirectImport(last.from, last.arg),
                            userRemappings) # 0)
    => LET Applied(best, remapped) ==
              best.targetNpmPackage = NoPackage
              => /\ \A i \in 1..Len(last.io) :
                        last.io[i] \notin {"resolve", "readJsonFile"}
                 /\ dependencyMaps = last.pre.deps
                 /\ IF isDirectImportLocal(ProjectRoot, remapped).local
                    THEN /\ last.kind \in {"ok", "ImportedFileMissing",
                                           "IncorrectCasing", "FileNotFoundError"}
                         /\ last.kind = "ok"
                            => /\ last.file.sourceName = remapped
                               /\ last.file = cacheBySourceName[remapped]
                         /\ (last.kind = "ok" /\ BuildsFile)
                            => last.file = ProjectResolvedFile(remapped,
                                    PathJoin(ProjectRoot, remapped),
                                    FileContent(PathJoin(ProjectRoot, remapped)))
                    ELSE /\ last.kind = "RemapNotLocal"
                         /\ last.detail = best.rawFormat
                         /\ cacheBySourceName = last.pre.cache
           Selected(best) ==
              Applied(best, applyValidRemapping(DirectImport(last.from, last.arg), best))
       IN Selected(userRemappings[selectBestRemapping(last.from.sourceName,
                        DirectImport(last.from, last.arg), userRemappings)])

\* An import has been remapped by a local remapping to a path whose first
\* directory is not in the project root, and has failed with RemapNotLocal
C27_Witness ==
    /\ last.op = "resolveImport"
    /\ last.from.type = PROJECT_FILE
    /\ last.arg = "e/Z.sol"
    /\ last.kind = "RemapNotLocal"
    /\ last.detail = "e/=dep@1.2.3/"
    /\ DOMAIN last.pre.cache # {}

-----------------------------------------------------------------------------
\* The first segment of a direct import is in the project root, or the
\* import has no "/"
FirstSegmentInProjectRoot(directImport) ==
    \/ ~Includes(directImport, "/")
    \/ exists(ProjectRoot \o "/"
                \o SubSeq(directImport, 1, IndexOf(directImport, "/") - 1))

\* C28: from a project file, with no matching user remapping, a direct
\* import other than hardhat/console.sol that has no "/" or whose first
\* segment exists in the project root is resolved as a project file even if
\* the file does not exist: a missing file gives the file-not-found error,
\* a wrong casing IncorrectCasing with the right casing, never an npm
\* error, and the package locator is not consulted.
C28_LocalDirectImport ==
    (/\ last.op = "resolveImport"
     /\ last.from.type = PROJECT_FILE
     /\ ~(IsRelativeImport(last.arg)
          /\ StartsWith(DirectImport(last.from, last.arg), "../"))
     /\ selectBestRemapping(last.from.sourceName, DirectImport(last.from, last.arg),
                            userRemappings) = 0
     /\ DirectImport(last.from, last.arg) # "hardhat/console.sol"
     /\ FirstSegmentInProjectRoot(DirectImport(last.from, last.arg)))
    => LET Local(directImport, trueCase) ==
              /\ \A i \in 1..Len(last.io) :
                    last.io[i] \notin {"resolve", "readJsonFile"}
              /\ dependencyMaps = last.pre.deps
              /\ last.kind \in {"ok", "ImportedFileMissing", "IncorrectCasing",
                                "FileNotFoundError"}
              /\ last.kind = "ok"
                 => last.file = ProjectResolvedFile(directImport,
                        ProjectRoot \o "/" \o directImport,
                        FileContent(ProjectRoot \o "/" \o directImport))
              /\ ~trueCase.found => last.kind = "ImportedFileMissing"
              /\ (trueCase.found /\ trueCase.path # directImport)
                 => last.kind = "IncorrectCasing" /\ last.detail = trueCase.path
       IN Local(DirectImport(last.from, last.arg),
                getFileTrueCase(ProjectRoot, DirectImport(last.from, last.arg)))

-----------------------------------------------------------------------------
(* The resolver driven with imports of monorepo packages: sib in /m/sib,   *)
(* and pq in /m/pq, a directory whose name extends that of the project     *)
(* root /m/p                                                                *)

NextMonorepo ==
    \/ \E strings \in { <<>>, <<"b/=npm/sib@local/">> } : Create(strings)
    \/ \E path \in { "/m/p/c/F.sol", "/m/p/F.sol" } : ResolveProjectFile(path)
    \/ \E from \in CachedFiles, importPath \in
            { "sib/S.sol", "sib/nope.sol", "pq/X.sol", "dep/X.sol",
              "proj/c/F.sol", "b/S.sol", "./G.sol" } :
            ResolveImport(from, importPath)
    \/ GetRemappings
    \/ TakeResult

SpecMonorepo == Init /\ [][NextMonorepo]_vars

\* The manifest that the last call, a technique-4 resolution, locates
LocatedManifest ==
    resolve(IF last.from.type = PROJECT_FILE THEN ProjectRoot
            ELSE last.from.package.rootPath,
            parseNpmDirectImport(DirectImport(last.from, last.arg)).package
                \o "/package.json")

\* C29: every located manifest falls in exactly one class: Installed if
\* its path contains node_modules, else Project if the path lies inside
\* the project root directory, else Monorepo sibling; a manifest outside
\* node_modules and outside the project root directory, also one in a
\* sibling directory whose name extends the project root's name, is a
\* Monorepo sibling, and the files imported from it get the source names
\* npm/<name>@local/<path>.
C29_ManifestClasses ==
    (/\ last.op = "resolveImport"
     /\ ReachesNpm(userRemappings, last.from, last.arg)
     /\ LocatedManifest.found)
    => LET Classified(manifest, parsed, dependency) ==
              /\ isPackageJsonFromNpmPackage(manifest)
                 <=> ManifestClass(manifest) = "Installed"
              /\ isPackageJsonFromProject(manifest, ProjectRoot)
                 <=> ManifestClass(manifest) = "Project"
              /\ isPackageJsonFromMonorepo(manifest, ProjectRoot)
                 <=> ManifestClass(manifest) = "Monorepo"
              /\ dependency = SentinelDependency
                 <=> ManifestClass(manifest) = "Project"
              /\ ManifestClass(manifest) = "Monorepo"
                 => /\ dependency.package.version = "local"
                    /\ dependency.package.rootSourceName =
                            "npm/" \o parsed.package \o "@local/"
                    /\ last.kind = "ok"
                       => last.file.sourceName =
                            "npm/" \o parsed.package \o "@local/" \o parsed.path
              /\ ManifestClass(manifest) = "Installed"
                 => dependency.package.version = readJsonFile(manifest).version
           Located(parsed) ==
              Classified(LocatedManifest.path, parsed,
                         GetDependency(dependencyMaps, KeyOf(last.from), parsed.package))
       IN Located(parseNpmDirectImport(DirectImport(last.from, last.arg)))

-----------------------------------------------------------------------------
(* The resolver driven with imports of packages whose manifests hold a     *)
(* dotted triple, a pre-release version, or are monorepo siblings          *)

NextVersions ==
    \/ \E strings \in { <<>>, <<"a/=npm/dep@1.2.3/">> } : Create(strings)
    \/ \E path \in { "/m/p/c/F.sol", "/m/p/F.sol" } : ResolveProjectFile(path)
    \/ \E from \in CachedFiles, importPath \in
            { "pre/P.sol", "dep/X.sol", "sib/S.sol", "a/X.sol",
              "proj/c/F.sol", "./G.sol" } :
            ResolveImport(from, importPath)
    \/ GetRemappings
    \/ TakeResult

SpecVersions == Init /\ [][NextVersions]_vars

\* npm/<name>@<version>/ with <version> the literal local or a dotted
\* triple of decimal numbers
WellFormedRootSourceName(rootSourceName) ==
    LET Form(parsed) ==
            /\ parsed.matched
            /\ rootSourceName = "npm/" \o parsed.packageName \o "@"
                                    \o parsed.packageVersion \o "/"
    IN Form(parseNpmRemappingTarget(rootSourceName))

\* C30: every package root source name in the dependency maps, in a user
\* remapping's target package or in a cached PackageFile has the form
\* npm/<name>@<version>/ with <version> the literal local or a dotted
\* triple of decimal numbers, whatever the versions in the manifests of the
\* installed packages.
C30_RootSourceNameForm ==
    /\ \A e \in Slots(dependencyMaps) :
          /\ e.key # SentinelKey => WellFormedRootSourceName(e.key.sourceName)
          /\ e.dependency # SentinelDependency
             => WellFormedRootSourceName(e.dependency.package.rootSourceName)
    /\ \A i \in 1..Len(userRemappings) :
          userRemappings[i].targetNpmPackage # NoPackage
          => WellFormedRootSourceName(userRemappings[i].targetNpmPackage.rootSourceName)
    /\ \A f \in CachedFiles :
          f.type = NPM_PACKGE_FILE
          => WellFormedRootSourceName(f.package.rootSourceName)

-----------------------------------------------------------------------------
(* The resolver of a project that imports the package installed under the  *)
(* name ali, whose manifest names it real, by its installed name and       *)
(* through user remappings to packages.                                    *)

NextAlias ==
    \/ \E strings \in
            { <<>>,
              <<"a/=npm/ali@1.0.0/", "d/=npm/dep@1.2.3/", "b/=npm/sib@local/">> } : Create(strings)
    \/ \E path \in { "/m/p/c/F.sol" } : ResolveProjectFile(path)
    \/ \E from \in CachedFiles, importPath \in
            { "a/A.sol", "ali/A.sol", "real/A.sol", "d/X.sol", "d/nope.sol",
              "dep/X.sol", "b/S.sol", "sib/S.sol", "./G.sol", "Ali/A.sol",
              "@s/a.sol" } :
            ResolveImport(from, importPath)
    \/ GetRemappings
    \/ TakeResult

SpecAlias == Init /\ [][NextAlias]_vars

\* The dependency maps of a resolver that has resolved no import
NewDependencyMaps == <<[key |-> SentinelKey, map |-> <<>>]>>

\* C31: a file of an installed package imported from a project file through
\* a user remapping to npm/<name>@<version>/ is the file that importing
\* <name>/<path> through npm yields in a resolver without that remapping:
\* the same source name, path, content and package.
C31_RemappedEqualsThroughNpm ==
    (/\ last.op = "resolveImport"
     /\ last.kind = "ok"
     /\ last.from.type = PROJECT_FILE
     /\ ~(IsRelativeImport(last.arg)
          /\ StartsWith(DirectImport(last.from, last.arg), "../"))
     /\ selectBestRemapping(last.from.sourceName, DirectImport(last.from, last.arg),
                            userRemappings) # 0)
    => LET Equivalent(throughNpm) ==
              /\ throughNpm.kind = "ok"
              /\ throughNpm.file = last.file
           Applied(best, remapped) ==
              best.targetNpmPackage # NoPackage
              => Equivalent(resolveImport(EmptyCache, NewDependencyMaps, <<>>, last.from,
                    best.targetNpmPackage.name \o "/" \o
                    PathRelative(best.targetNpmPackage.rootSourceName, remapped)))
           Selected(best) ==
              Applied(best, applyValidRemapping(DirectImport(last.from, last.arg), best))
       IN Selected(userRemappings[selectBestRemapping(last.from.sourceName,
                        DirectImport(last.from, last.arg), userRemappings)])

\* The directory the locator starts from for an import of the file
BaseResolutionDirectory(from) ==
    IF from.type = PROJECT_FILE THEN ProjectRoot ELSE from.package.rootPath

\* C33: a successful import through npm of a package that is not the
\* project takes the name and the version of the source name and of the
\* root source name from the located manifest (for a package installed
\* under another name, not the name in the import), while the dependency
\* is filed under the name written in the import and the remapping
\* getRemappings emits for it has that name as its prefix.
C33_AliasNamedByManifest ==
    (/\ last.op = "resolveImport"
     /\ last.kind = "ok"
     /\ ReachesNpm(userRemappings, last.from, last.arg))
    => LET Located(parsed, packageJsonPath, key) ==
              ~isPackageJsonFromProject(packageJsonPath, ProjectRoot)
              => LET Named(manifest, version) ==
                        /\ last.file.package.name = manifest.name
                        /\ last.file.package.rootSourceName =
                              "npm/" \o manifest.name \o "@" \o version \o "/"
                        /\ last.file.sourceName =
                              "npm/" \o manifest.name \o "@" \o version \o "/"
                                  \o parsed.path
                        /\ HasDependency(dependencyMaps, key, parsed.package)
                        /\ \E i \in 1..Len(getRemappings(dependencyMaps, userRemappings)) :
                              getRemappings(dependencyMaps, userRemappings)[i] =
                                  Remapping(IF key.sentinel THEN "" ELSE key.sourceName,
                                            parsed.package \o "/",
                                            "npm/" \o manifest.name \o "@" \o version
                                                \o "/")
                 IN Named(readJsonFile(packageJsonPath),
                          IF isPackageJsonFromMonorepo(packageJsonPath, ProjectRoot)
                          THEN "local" ELSE readJsonFile(packageJsonPath).version)
           Parsed(parsed) ==
              Located(parsed,
                      resolve(BaseResolutionDirectory(last.from),
                              parsed.package \o "/package.json").path,
                      KeyOf(last.from))
       IN Parsed(parseNpmDirectImport(DirectImport(last.from, last.arg)))

\* The package installed as ali, named real by its manifest, has been
\* imported from the project by its installed name
C33_Witness ==
    /\ last.op = "resolveImport"
    /\ last.kind = "ok"
    /\ last.from.type = PROJECT_FILE
    /\ last.arg = "ali/A.sol"
    /\ last.file.sourceName = "npm/real@1.0.0/A.sol"
    /\ last.file.package.name = "real"
    /\ HasDependency(dependencyMaps, SentinelKey, "ali")
    /\ ~HasDependency(dependencyMaps, SentinelKey, "real")

-----------------------------------------------------------------------------
(* The resolver of a project that imports the package kit, which has its   *)
(* own dep 2.0.0, and the package installed as ali, which has its own copy *)
(* of kit 1.0.0 without a dep of its own.                                  *)

\* MaxEntriesCopies entries, the resolved files of the cache and the
\* dependencies of the dependency maps counted together
MaxEntriesCopies == 9

\* The call returns (or throws): the resolver's state is what the call left
RespondCopies(op, from, arg, out) ==
    /\ Cardinality(DOMAIN out.cache) + Len(DependencyEntries(out.deps))
            <= MaxEntriesCopies
    /\ cacheBySourceName' = out.cache
    /\ dependencyMaps' = out.deps
    /\ last' = Call(op, from, arg, out)
    /\ UNCHANGED <<status, userRemappings, earlier, inflight, cachedObject>>

ResolveProjectFileCopies(absoluteFilePath) ==
    /\ Serving
    /\ RespondCopies("resolveProjectFile", NoFile, absoluteFilePath,
                     resolveProjectFile(cacheBySourceName, dependencyMaps,
                                        absoluteFilePath))

ResolveImportCopies(from, importPath) ==
    /\ Serving
    /\ RespondCopies("resolveImport", from, importPath,
                     resolveImport(cacheBySourceName, dependencyMaps, userRemappings,
                                   from, importPath))

NextCopies ==
    \/ \E strings \in { <<>> } : Create(strings)
    \/ \E path \in { "/m/p/c/F.sol" } : ResolveProjectFileCopies(path)
    \/ \E from \in CachedFiles, importPath \in
            { "kit/K.sol", "kit/L.sol", "ali/A.sol", "dep/X.sol" } :
            ResolveImportCopies(from, importPath)
    \/ GetRemappings
    \/ TakeResult

SpecCopies == Init /\ [][NextCopies]_vars

\* C37: every dependency filed under an origin is the dependency the
\* locator gives for every importer of that origin: for the project's
\* origin, located from the project root; for a package's origin, located
\* from the root path of every cached file of a package with that root
\* source name.
C37_DependenciesAgreeWithLocator ==
    LET Agrees(entry, base) ==
            LET Located(packageJsonPath) ==
                    /\ packageJsonPath.found
                    /\ entry.dependency = NewDependency(packageJsonPath.path)
            IN Located(resolve(base, entry.imported \o "/package.json"))
        Entries(entries) ==
            \A i \in 1..Len(entries) :
                IF entries[i].key.sentinel
                THEN Agrees(entries[i], ProjectRoot)
                ELSE \A f \in CachedFiles :
                        (/\ f.type = NPM_PACKGE_FILE
                         /\ f.package.rootSourceName = entries[i].key.sourceName)
                        => Agrees(entries[i], f.package.rootPath)
    IN Entries(DependencyEntries(dependencyMaps))

\* C32: a successful import through npm resolves the imported package
\* relative to the importer: the dependency filed under the importer's
\* origin (the sentinel for a project file, the root source name of its
\* package for a package file) is the one the locator gives from the
\* project root or from the root path of the importer's package, the
\* source name is built on it, and getRemappings holds one entry for that
\* context and package; so, with dep 1.2.3 installed for the project and
\* dep 2.0.0 for kit, "dep/X.sol" is npm/dep@1.2.3/X.sol from the project
\* and npm/dep@2.0.0/X.sol from kit's K.sol.
C32_ResolvedRelativeToImporter ==
    (/\ last.op = "resolveImport"
     /\ last.kind = "ok"
     /\ ReachesNpm(userRemappings, last.from, last.arg))
    => LET OneEntry(context, prefix, list) ==
              Cardinality({ i \in 1..Len(list) :
                              /\ list[i].context = context
                              /\ list[i].prefix = prefix }) = 1
           Filed(parsed, key, dependency) ==
              /\ HasDependency(dependencyMaps, key, parsed.package)
              /\ GetDependency(dependencyMaps, key, parsed.package) = dependency
              /\ ~dependency.sentinel
                 => last.file.sourceName =
                        dependency.package.rootSourceName \o parsed.path
              /\ OneEntry(IF key.sentinel THEN "" ELSE key.sourceName,
                          parsed.package \o "/",
                          getRemappings(dependencyMaps, userRemappings))
           Located(parsed, packageJsonPath) ==
              /\ packageJsonPath.found
              /\ Filed(parsed, KeyOf(last.from), NewDependency(packageJsonPath.path))
           Parsed(parsed) ==
              Located(parsed, resolve(BaseResolutionDirectory(last.from),
                                      parsed.package \o "/package.json"))
       IN /\ Parsed(parseNpmDirectImport(DirectImport(last.from, last.arg)))
          /\ (last.arg = "dep/X.sol" /\ last.from.type = PROJECT_FILE)
             => last.file.sourceName = "npm/dep@1.2.3/X.sol"
          /\ (last.arg = "dep/X.sol" /\ last.from.sourceName = "npm/kit@1.0.0/K.sol")
             => last.file.sourceName = "npm/dep@2.0.0/X.sol"

-----------------------------------------------------------------------------
\* resolveImport(from, importPath) gets to #resolveImportThroughNpm: the
\* direct import is not remapped and not local
NonLocalDirectImport(remappings, from, importPath) ==
    LET Route(directImport) ==
            IF from.type = PROJECT_FILE
            THEN /\ ~(IsRelativeImport(importPath) /\ StartsWith(directImport, "../"))
                 /\ selectBestRemapping(from.sourceName, directImport, remappings) = 0
                 /\ ~isDirectImportLocal(ProjectRoot, directImport).local
            ELSE /\ ~StartsWith(directImport, from.package.rootSourceName)
                 /\ ~IsRelativeImport(importPath)
                 /\ ~isDirectImportLocal(from.package.rootPath, directImport).local
    IN Route(DirectImport(from, importPath))

\* C34: a non-local direct import that does not match the pattern of
\* #parseNpmDirectImport fails with MalformedNpmImport; one that names a
\* package with no dependency filed yet that the locator does not find
\* fails with DependencyMissing, which tells a project requester from a
\* package requester (its name and version).  Either way no dependency is
\* filed for that origin and package, the cache is as it was and
\* getRemappings returns what it returned before.
C34_MalformedOrMissing ==
    (/\ last.op = "resolveImport"
     /\ NonLocalDirectImport(userRemappings, last.from, last.arg))
    => LET Untouched(key, imported) ==
              /\ cacheBySourceName = last.pre.cache
              /\ ~HasDependency(dependencyMaps, key, imported)
              /\ Slots(dependencyMaps) = Slots(last.pre.deps)
              /\ getRemappings(dependencyMaps, userRemappings) =
                     getRemappings(last.pre.deps, userRemappings)
           Parsed(parsed, key) ==
              /\ ~parsed.matched
                 => /\ last.kind = "MalformedNpmImport"
                    /\ dependencyMaps = last.pre.deps
                    /\ Untouched(key, parsed.package)
              /\ (/\ parsed.matched
                  /\ ~HasDependency(last.pre.deps, key, parsed.package)
                  /\ ~resolve(BaseResolutionDirectory(last.from),
                              parsed.package \o "/package.json").found)
                 => /\ last.kind = "DependencyMissing"
                    /\ last.detail =
                          (IF last.from.type = PROJECT_FILE THEN "project"
                           ELSE last.from.package.name \o "@"
                                    \o last.from.package.version)
                    /\ Untouched(key, parsed.package)
       IN Parsed(parseNpmDirectImport(DirectImport(last.from, last.arg)),
                 KeyOf(last.from))

\* A file of the package dep has asked for a package that is not
\* installed, in its first import through npm: the dependency maps have
\* got the origin of dep, without a dependency
C34_Witness ==
    /\ last.op = "resolveImport"
    /\ last.arg = "real/A.sol"
    /\ last.kind = "DependencyMissing"
    /\ last.from.type = NPM_PACKGE_FILE
    /\ last.detail = "dep@1.2.3"
    /\ dependencyMaps # last.pre.deps

-----------------------------------------------------------------------------
\* C36: calls being serialized, the cache only grows: every step keeps
\* every source name of the cache with the object it is mapped to, adds at
\* most one entry, and adds it only in a successful call that has built
\* the file it returns, under that file's source name, which was not in
\* the cache.
C36_CacheAppendOnly ==
    [][/\ \A sn \in DOMAIN cacheBySourceName :
             /\ sn \in DOMAIN cacheBySourceName'
             /\ cacheBySourceName'[sn] = cacheBySourceName[sn]
       /\ Cardinality(DOMAIN cacheBySourceName')
             <= Cardinality(DOMAIN cacheBySourceName) + 1
       /\ DOMAIN cacheBySourceName' # DOMAIN cacheBySourceName
          => /\ last'.op \in {"resolveProjectFile", "resolveImport"}
             /\ last'.kind = "ok"
             /\ DOMAIN cacheBySourceName' =
                    DOMAIN cacheBySourceName \cup {last'.file.sourceName}
             /\ cacheBySourceName'[last'.file.sourceName] = last'.file
       /\ (/\ last'.op \in {"resolveProjectFile", "resolveImport"}
           /\ last'.kind = "ok"
           /\ \E i \in 1..Len(last'.io) : last'.io[i] = "readUtf8File")
          => last'.file.sourceName \notin DOMAIN cacheBySourceName]_vars

\* A successful import has added the third entry of the cache and the two
\* entries it had are as they were
C36_Witness ==
    /\ last.op = "resolveImport"
    /\ last.kind = "ok"
    /\ Cardinality(DOMAIN last.pre.cache) = 2
    /\ Cardinality(DOMAIN cacheBySourceName) = 3
    /\ \A sn \in DOMAIN last.pre.cache : cacheBySourceName[sn] = last.pre.cache[sn]

-----------------------------------------------------------------------------
(* Calls that overlap.  The methods are async: a call runs until its next  *)
(* await, where the calls of other tasks can run, and goes on with the     *)
(* cache and the dependency maps as they are when the awaited I/O is done. *)
(* A task's pc names the I/O its call awaits: "exists" (the locality test  *)
(* of #isDirectImportLocal), "readJsonFile" (the located package.json),    *)
(* "getFileTrueCase" (the validation of existence and casing) and          *)
(* "readUtf8File" (the content); "returned" when the call has returned or  *)
(* thrown and the task has not taken the result yet.                       *)

\* MaxCalls calls of a task
MaxCalls == 3

\* The call returns or throws
Returned(task, kind, detail) ==
    [task EXCEPT !.pc = "returned", !.kind = kind, !.detail = detail]

\* The head of resolveProjectFile and of the four techniques: the cached
\* object is returned, if there is one; otherwise the call validates
LookUp(task, plan) ==
    IF plan.sourceName \in DOMAIN cacheBySourceName
    THEN [task EXCEPT !.pc = "returned", !.kind = "ok",
                      !.file = cacheBySourceName[plan.sourceName],
                      !.object = cachedObject[plan.sourceName]]
    ELSE [task EXCEPT !.pc = "getFileTrueCase", !.plan = plan]

\* The technique #resolveImportThroughNpm dispatches to
DispatchOn(dependency, pathWithinThePackage) ==
    IF dependency.sentinel
    THEN resolveImportToProjectFile(pathWithinThePackage)
    ELSE resolveImportToNpmPackage(dependency.package, pathWithinThePackage)

\* dependenciesMap.set(parsedDirectImport.package, newDependency): a new
\* entry, or a new value for the entry there is
PutDependency(deps, key, imported, dependency) ==
    IF HasDependency(deps, key, imported)
    THEN LET Replace(i) ==
                [deps EXCEPT ![i].map =
                    [j \in 1..Len(@) |->
                        IF @[j].imported = imported
                        THEN [imported |-> imported, dependency |-> dependency]
                        ELSE @[j]]]
         IN Replace(KeyIndex(deps, key))
    ELSE SetDependency(deps, key, imported, dependency)

\* The route resolveImport takes for the direct import of a call: whether
\* the locality of the import is tested on disk, and the error or the file
\* of a route that does not go through npm
Route(step) ==
    [exists |-> \E i \in 1..Len(step.io) : step.io[i] = "exists",
     done |-> step.done, kind |-> step.out.kind, detail |-> step.out.detail,
     plan |-> step.plan]

\* resolveImport from the locality test on, up to the next await: the task
\* and the dependency maps it leaves
AfterLocalityTest(task) ==
    LET Missing ==
            Returned(task, "DependencyMissing",
                     IF task.from.type = PROJECT_FILE THEN "project"
                     ELSE task.from.package.name \o "@" \o task.from.package.version)
        Located(packageJsonPath, deps1) ==
            IF ~packageJsonPath.found
            THEN [task |-> Missing, deps |-> deps1]
            ELSE [task |-> [task EXCEPT !.pc = "readJsonFile",
                                        !.manifest = packageJsonPath.path],
                  deps |-> deps1]
        Keyed(parsed, key, deps1) ==
            IF HasDependency(deps1, key, parsed.package)
            THEN [task |-> LookUp(task,
                              DispatchOn(GetDependency(deps1, key, parsed.package),
                                         parsed.path)),
                  deps |-> deps1]
            ELSE Located(resolve(BaseResolutionDirectory(task.from),
                                 parsed.package \o "/package.json"), deps1)
        ThroughNpmFrom(parsed) ==
            IF ~parsed.matched
            THEN [task |-> Returned(task, "MalformedNpmImport",
                                    DirectImport(task.from, task.arg)),
                  deps |-> dependencyMaps]
            ELSE Keyed(parsed, KeyOf(task.from),
                       EnsureKey(dependencyMaps, KeyOf(task.from)))
        Otherwise(route) ==
            IF route.done
            THEN [task |-> Returned(task, route.kind, route.detail),
                  deps |-> dependencyMaps]
            ELSE [task |-> LookUp(task, route.plan), deps |-> dependencyMaps]
    IN IF NonLocalDirectImport(userRemappings, task.from, task.arg)
       THEN ThroughNpmFrom(parseNpmDirectImport(DirectImport(task.from, task.arg)))
       ELSE Otherwise(task.route)

\* resolveImport up to its first await: the call awaits the locality test,
\* if its route has one
AfterRouting(task) ==
    IF task.route.exists
    THEN [task |-> [task EXCEPT !.pc = "exists"], deps |-> dependencyMaps]
    ELSE AfterLocalityTest(task)

\* The task goes on to its next await, or returns
Proceed(t, step) ==
    /\ inflight' = [inflight EXCEPT ![t] = step.task]
    /\ dependencyMaps' = step.deps

\* A task calls resolveProjectFile
BeginResolveProjectFile(t, absoluteFilePath) ==
    LET Started(task, sourceName) ==
            IF /\ sourceName \notin DOMAIN cacheBySourceName
               /\ ~StartsWith(absoluteFilePath, ProjectRoot)
            THEN Returned(task, "NotWithinProject", absoluteFilePath)
            ELSE LookUp(task, Plan(sourceName, sourceName, ProjectRoot, absoluteFilePath,
                                   ProjectResolvedFile(sourceName, absoluteFilePath, "")))
    IN /\ Serving
       /\ inflight[t].pc = "idle"
       /\ inflight[t].calls < MaxCalls
       /\ inflight' = [inflight EXCEPT ![t] =
            Started([IdleTask(inflight[t].calls + 1) EXCEPT
                        !.op = "resolveProjectFile", !.arg = absoluteFilePath,
                        !.pre = [cache |-> cacheBySourceName, deps |-> dependencyMaps]],
                    PathRelative(ProjectRoot, absoluteFilePath))]
       /\ UNCHANGED <<status, userRemappings, cacheBySourceName, dependencyMaps, last,
                      earlier, cachedObject>>

\* A task calls resolveImport
BeginResolveImport(t, from, importPath) ==
    /\ Serving
    /\ inflight[t].pc = "idle"
    /\ inflight[t].calls < MaxCalls
    /\ \E route \in { Route(SelectTechnique(cacheBySourceName, dependencyMaps,
                                             userRemappings, from, importPath)) } :
            Proceed(t, AfterRouting([IdleTask(inflight[t].calls + 1) EXCEPT
                            !.op = "resolveImport", !.from = from, !.arg = importPath,
                            !.route = route,
                            !.pre = [cache |-> cacheBySourceName,
                                     deps |-> dependencyMaps]]))
    /\ UNCHANGED <<status, userRemappings, cacheBySourceName, last, earlier,
                   cachedObject>>

\* exists() of #isDirectImportLocal is done
AfterExists(t) ==
    /\ inflight[t].pc = "exists"
    /\ Proceed(t, AfterLocalityTest(inflight[t]))
    /\ UNCHANGED <<status, userRemappings, cacheBySourceName, last, earlier,
                   cachedObject>>

\* readJsonFile of the located package.json is done: the dependency is set
\* and the technique begins
AfterReadJsonFile(t) ==
    LET Set(task, parsed, newDependency) ==
            [task |-> LookUp(task, DispatchOn(newDependency, parsed.path)),
             deps |-> PutDependency(dependencyMaps, KeyOf(task.from), parsed.package,
                                    newDependency)]
    IN /\ inflight[t].pc = "readJsonFile"
       /\ Proceed(t, Set(inflight[t],
                         parseNpmDirectImport(DirectImport(inflight[t].from,
                                                           inflight[t].arg)),
                         NewDependency(inflight[t].manifest)))
       /\ UNCHANGED <<status, userRemappings, cacheBySourceName, last, earlier,
                      cachedObject>>

\* getFileTrueCase is done: the call throws, or goes on to read the file
AfterGetFileTrueCase(t) ==
    LET OfProjectFile(task, trueCasePath) ==
            IF ~trueCasePath.found
            THEN Returned(task, "ProjectFileMissing", task.arg)
            ELSE IF trueCasePath.path # task.plan.relativePath
            THEN Returned(task, "IncorrectCasing",
                          PathJoin(ProjectRoot, trueCasePath.path))
            ELSE [task EXCEPT !.pc = "readUtf8File"]
        OfImport(task, v) ==
            IF v.kind # "ok" THEN Returned(task, v.kind, v.detail)
            ELSE [task EXCEPT !.pc = "readUtf8File"]
        Validated(task) ==
            IF task.op = "resolveProjectFile"
            THEN OfProjectFile(task, getFileTrueCase(ProjectRoot, task.plan.relativePath))
            ELSE OfImport(task, validateExistanceAndCasingOfImport(
                                    task.plan.relativePath, task.plan.rootPath))
    IN /\ inflight[t].pc = "getFileTrueCase"
       /\ inflight' = [inflight EXCEPT ![t] = Validated(inflight[t])]
       /\ UNCHANGED <<status, userRemappings, cacheBySourceName, dependencyMaps, last,
                      earlier, cachedObject>>

\* readUtf8File is done: the file is built, set in the cache and returned
AfterReadUtf8File(t) ==
    LET Built(task, content) ==
            IF ~content.found
            THEN /\ inflight' = [inflight EXCEPT ![t] =
                        Returned(task, "FileNotFoundError", task.plan.filePath)]
                 /\ UNCHANGED <<cacheBySourceName, cachedObject>>
            ELSE /\ inflight' = [inflight EXCEPT ![t] =
                        [task EXCEPT !.pc = "returned", !.kind = "ok",
                            !.file = [task.plan.file EXCEPT !.content = content.path],
                            !.object = [task |-> t, call |-> task.calls]]]
                 /\ cacheBySourceName' =
                        CacheSet(cacheBySourceName, task.plan.sourceName,
                                 [task.plan.file EXCEPT !.content = content.path])
                 /\ cachedObject' =
                        CacheSet(cachedObject, task.plan.sourceName,
                                 [task |-> t, call |-> task.calls])
    IN /\ inflight[t].pc = "readUtf8File"
       /\ Built(inflight[t], readUtf8File(inflight[t].plan.filePath))
       /\ UNCHANGED <<status, userRemappings, dependencyMaps, last, earlier>>

\* The task takes the result of its call
Settle(t) ==
    /\ inflight[t].pc = "returned"
    /\ inflight' = [inflight EXCEPT ![t] = IdleTask(inflight[t].calls)]
    /\ UNCHANGED <<status, userRemappings, cacheBySourceName, dependencyMaps, last,
                   earlier, cachedObject>>

-----------------------------------------------------------------------------
(* One task, whose calls are seen at each of their awaits. *)

OneTask == {1}

NextSuspended ==
    \/ \E strings \in { <<>>, <<"d/=npm/dep@1.2.3/">> } : Create(strings)
    \/ TakeResult
    \/ \E t \in OneTask, path \in
            { "/m/p/c/F.sol", "/m/p/c/f.sol", "/x/F.sol" } :
            BeginResolveProjectFile(t, path)
    \/ \E t \in OneTask, from \in CachedFiles, importPath \in
            { "./G.sol", "dep/X.sol", "dep/nope.sol", "d/X.sol",
              "nodep/Z.sol", "proj/c/G.sol" } :
            BeginResolveImport(t, from, importPath)
    \/ \E t \in OneTask : AfterExists(t)
    \/ \E t \in OneTask : AfterReadJsonFile(t)
    \/ \E t \in OneTask : AfterGetFileTrueCase(t)
    \/ \E t \in OneTask : AfterReadUtf8File(t)
    \/ \E t \in OneTask : Settle(t)

SpecSuspended == Init /\ [][NextSuspended]_vars

\* The call of the task awaits I/O
Suspended(t) ==
    inflight[t].pc \in {"exists", "readJsonFile", "getFileTrueCase", "readUtf8File"}

\* C35: at every await of a call in flight the cache and the dependency
\* maps are what they were when the call started, so that a call given up
\* at an await has left both untouched.
C35_SuspendedCallLeavesStateUntouched ==
    \A t \in OneTask :
        Suspended(t)
        => /\ cacheBySourceName = inflight[t].pre.cache
           /\ dependencyMaps = inflight[t].pre.deps

-----------------------------------------------------------------------------
(* Two tasks, whose calls overlap at their awaits. *)

NextOverlap ==
    \/ \E strings \in { <<>> } : Create(strings)
    \/ TakeResult
    \/ \E t \in Tasks, path \in { "/m/p/c/F.sol" } :
            BeginResolveProjectFile(t, path)
    \/ \E t \in Tasks, from \in CachedFiles, importPath \in
            { "./G.sol", "dep/X.sol" } :
            BeginResolveImport(t, from, importPath)
    \/ \E t \in Tasks : AfterExists(t)
    \/ \E t \in Tasks : AfterReadJsonFile(t)
    \/ \E t \in Tasks : AfterGetFileTrueCase(t)
    \/ \E t \in Tasks : AfterReadUtf8File(t)
    \/ \E t \in Tasks : Settle(t)

SpecOverlap == Init /\ [][NextOverlap]_vars

\* C38: two calls that overlap and resolve to one source name that was not
\* cached return the same object, and the object set first in the cache
\* under a source name is not replaced by another: the object a call has
\* returned is the one the cache holds under its source name.
C38_OverlappingCallsShareObject ==
    /\ \A t, u \in Tasks :
            (/\ inflight[t].pc = "returned" /\ inflight[t].kind = "ok"
             /\ inflight[u].pc = "returned" /\ inflight[u].kind = "ok"
             /\ inflight[t].file.sourceName = inflight[u].file.sourceName)
            => inflight[t].object = inflight[u].object
    /\ \A t \in Tasks :
            (inflight[t].pc = "returned" /\ inflight[t].kind = "ok")
            => cachedObject[inflight[t].file.sourceName] = inflight[t].object

=============================================================================
